---- MODULE Spec2Model ----
(***************************************************************************)
(* Model of the Thirteen Gopher server (cmd/thirteen).                     *)
(*                                                                         *)
(* Strings are sequences of one-character strings, so that the scans of    *)
(* normalizePath and splitScriptPathAndPathInfo are translated position by *)
(* position.  Go indexes from 0 and TLA+ from 1: the Go expression         *)
(* path[:n] is SubSeq(path, 1, n) and the Go byte path[n] is path[n + 1].  *)
(***************************************************************************)
EXTENDS Integers, Sequences, FiniteSets, TLC

(***************************************************************************)
(* Bounds of the model.                                                    *)
(***************************************************************************)
MaxSegs == 2

(***************************************************************************)
(* String helpers (package strings / bytes).                               *)
(***************************************************************************)
Empty == << >>

HasPrefix(s, p) == Len(s) >= Len(p) /\ SubSeq(s, 1, Len(p)) = p

HasSuffix(s, p) == Len(s) >= Len(p) /\ SubSeq(s, Len(s) - Len(p) + 1, Len(s)) = p

Contains(s, c) == \E i \in 1..Len(s) : s[i] = c

\* s[n:] of Go
From(s, n) == SubSeq(s, n + 1, Len(s))

\* the segments of a path: the maximal runs between slashes
RECURSIVE SegmentsFrom(_, _, _)
SegmentsFrom(s, i, cur) ==
    IF i > Len(s) THEN <<cur>>
    ELSE IF s[i] = "/" THEN <<cur>> \o SegmentsFrom(s, i + 1, Empty)
    ELSE SegmentsFrom(s, i + 1, Append(cur, s[i]))

Segments(s) == SegmentsFrom(s, 1, Empty)

DotDot == <<".", ".">>
Dot == <<".">>

(***************************************************************************)
(* Program constants.                                                      *)
(***************************************************************************)
cgiExt == <<".", "c", "g", "i">>
mapExt == <<".", "m", "a", "p">>
indexCgiPath == <<"/", "i", "n", "d", "e", "x">> \o cgiExt
indexMapPath == <<"/", "i", "n", "d", "e", "x">> \o mapExt
indexPaths == <<indexCgiPath, indexMapPath>>

okStatus == 200
badRequestStatus == 400
forbiddenStatus == 403
fileNotFoundStatus == 404
internalServerErrorStatus == 500

\* the *responseError values; NoError is Go's nil
NoError == 0
badRequestError == badRequestStatus
fileNotFoundError == fileNotFoundStatus
forbiddenError == forbiddenStatus
internalServerErrorError == internalServerErrorStatus

(***************************************************************************)
(* url.PathUnescape: every '%' must be followed by two hex digits, and the *)
(* three bytes are replaced by the byte they encode.                       *)
(***************************************************************************)
HexDigits == {"0", "1", "2", "3", "4", "5", "6", "7", "8", "9",
              "a", "b", "c", "d", "e", "f", "A", "B", "C", "D", "E", "F"}

ishex(c) == c \in HexDigits

unhex(c) ==
    CASE c = "0" -> 0 [] c = "1" -> 1 [] c = "2" -> 2 [] c = "3" -> 3
      [] c = "4" -> 4 [] c = "5" -> 5 [] c = "6" -> 6 [] c = "7" -> 7
      [] c = "8" -> 8 [] c = "9" -> 9
      [] c \in {"a", "A"} -> 10 [] c \in {"b", "B"} -> 11
      [] c \in {"c", "C"} -> 12 [] c \in {"d", "D"} -> 13
      [] c \in {"e", "E"} -> 14 [] c \in {"f", "F"} -> 15

\* the bytes of the model's alphabet by their code; NUL is the byte 0 and
\* "~" stands for every byte outside the alphabet
ByteOf(code) ==
    CASE code = 0 -> "NUL"
      [] code = 37 -> "%"
      [] code = 46 -> "."
      [] code = 47 -> "/"
      [] code = 100 -> "d"
      [] code = 120 -> "x"
      [] OTHER -> "~"

RECURSIVE UnescapeValid(_, _)
UnescapeValid(s, i) ==
    IF i > Len(s) THEN TRUE
    ELSE IF s[i] = "%"
         THEN /\ i + 2 <= Len(s)
              /\ ishex(s[i + 1])
              /\ ishex(s[i + 2])
              /\ UnescapeValid(s, i + 3)
         ELSE UnescapeValid(s, i + 1)

RECURSIVE UnescapeFrom(_, _)
UnescapeFrom(s, i) ==
    IF i > Len(s) THEN Empty
    ELSE IF s[i] = "%"
         THEN <<ByteOf(unhex(s[i + 1]) * 16 + unhex(s[i + 2]))>> \o UnescapeFrom(s, i + 3)
         ELSE <<s[i]>> \o UnescapeFrom(s, i + 1)

PathUnescape(s) ==
    IF UnescapeValid(s, 1) THEN [ok |-> TRUE, val |-> UnescapeFrom(s, 1)]
    ELSE [ok |-> FALSE, val |-> Empty]

(***************************************************************************)
(* normalizePath.  start and end are the Go loop variables (0-based);      *)
(* newPath is the slice of components kept so far.                         *)
(***************************************************************************)
RECURSIVE SkipSlashes(_, _)
SkipSlashes(path, start) ==
    IF start < Len(path) /\ path[start + 1] = "/" THEN SkipSlashes(path, start + 1)
    ELSE start

RECURSIVE ComponentEnd(_, _)
ComponentEnd(path, end) ==
    IF end < Len(path) /\ path[end + 1] # "/" THEN ComponentEnd(path, end + 1)
    ELSE end

RECURSIVE Flatten(_, _)
Flatten(newPath, i) ==
    IF i > Len(newPath) THEN Empty
    ELSE <<"/">> \o newPath[i] \o Flatten(newPath, i + 1)

\* the loop without the test for the component "."
RECURSIVE NormalizeLoopKeepDot(_, _, _, _)
NormalizeLoopKeepDot(path, start0, end0, newPath) ==
    IF ~(end0 < Len(path)) THEN [ok |-> TRUE, out |-> Flatten(newPath, 1)]
    ELSE LET start == SkipSlashes(path, start0)
             end == ComponentEnd(path, start)
             component == SubSeq(path, start + 1, end)
         IN  IF component = DotDot
             THEN IF Len(newPath) = 0
                  THEN [ok |-> FALSE, out |-> Empty]
                  ELSE NormalizeLoopKeepDot(path, end + 1, end,
                                            SubSeq(newPath, 1, Len(newPath) - 1))
             ELSE NormalizeLoopKeepDot(path, end + 1, end, Append(newPath, component))

RECURSIVE NormalizeLoop(_, _, _, _)
NormalizeLoop(path, start0, end0, newPath) ==
    IF ~(end0 < Len(path)) THEN [ok |-> TRUE, out |-> Flatten(newPath, 1)]
    ELSE LET start == SkipSlashes(path, start0)
             end == ComponentEnd(path, start)
             component == SubSeq(path, start + 1, end)
         IN  IF component = DotDot
             THEN IF Len(newPath) = 0
                  THEN [ok |-> FALSE, out |-> Empty]
                  ELSE NormalizeLoop(path, end + 1, end, SubSeq(newPath, 1, Len(newPath) - 1))
             ELSE IF component # Dot
                  THEN NormalizeLoop(path, end + 1, end, Append(newPath, component))
                  ELSE NormalizeLoop(path, end + 1, end, newPath)

normalizePath(path) == NormalizeLoop(path, 0, 0, << >>)

(***************************************************************************)
(* The document root on disk.  fs maps every existing path to its kind and *)
(* permission bits; excluded is the set of excluded extensions; the server *)
(* process runs either as the owner of the files or as another user        *)
(* (after changeUser).                                                     *)
(***************************************************************************)
VARIABLES fs, excluded, procIsOwner

\* bitwise AND of two naturals (the & of Go)
RECURSIVE BitAnd(_, _)
BitAnd(a, b) ==
    IF a = 0 \/ b = 0 THEN 0
    ELSE 2 * BitAnd(a \div 2, b \div 2) + (IF a % 2 = 1 /\ b % 2 = 1 THEN 1 ELSE 0)

\* what the kernel lets the server process do with an inode of this mode
CanSearch(mode) == BitAnd(mode, IF procIsOwner THEN 64 ELSE 1) # 0
CanRead(mode) == BitAnd(mode, IF procIsOwner THEN 256 ELSE 4) # 0
CanExec(mode) == BitAnd(mode, IF procIsOwner THEN 64 ELSE 1) # 0

\* path resolution of the kernel from the prefix path[:n] on: every
\* directory on the way must exist, be a directory and be searchable
RECURSIVE Walk(_, _)
Walk(path, n) ==
    LET cur == SubSeq(path, 1, n)
    IN  IF cur \notin DOMAIN fs THEN [errno |-> "ENOENT", isDir |-> FALSE, mode |-> 0]
        ELSE IF n = Len(path) THEN [errno |-> "OK", isDir |-> fs[cur].isDir, mode |-> fs[cur].mode]
        ELSE IF ~fs[cur].isDir THEN [errno |-> "ENOTDIR", isDir |-> FALSE, mode |-> 0]
        ELSE IF n + 1 = Len(path) THEN [errno |-> "OK", isDir |-> TRUE, mode |-> fs[cur].mode]
        ELSE IF ~CanSearch(fs[cur].mode) THEN [errno |-> "EACCES", isDir |-> FALSE, mode |-> 0]
        ELSE Walk(path, ComponentEnd(path, n + 1))

rootPath == <<"/", "r">>

\* os.Stat of a path under the document root
Stat(path) == Walk(path, Len(rootPath))

\* os.Open (read-only) of a path under the document root
Open(path) ==
    LET st == Stat(path)
    IN  IF st.errno # "OK" THEN st.errno
        ELSE IF ~CanRead(st.mode) THEN "EACCES"
        ELSE "OK"

\* filepath.Ext: the suffix from the last dot of the last element
RECURSIVE ExtFrom(_, _)
ExtFrom(path, i) ==
    IF i < 1 \/ path[i] = "/" THEN Empty
    ELSE IF path[i] = "." THEN SubSeq(path, i, Len(path))
    ELSE ExtFrom(path, i - 1)

Ext(path) == ExtFrom(path, Len(path))

(***************************************************************************)
(* getStats                                                                *)
(***************************************************************************)
\* getStats without the check of the excluded extensions
getStatsNoExclude(path) ==
    LET st == Stat(path)
        none == [isFile |-> FALSE, isDir |-> FALSE, isCGI |-> FALSE, err |-> NoError]
    IN  IF st.errno # "OK"
        THEN [none EXCEPT !.err = IF st.errno = "ENOENT" THEN fileNotFoundError ELSE forbiddenError]
        ELSE LET isCGI == ~st.isDir /\ HasSuffix(path, cgiExt)
                 needPerm == IF st.isDir \/ isCGI THEN 5 ELSE 4
             IN  [isFile |-> ~st.isDir, isDir |-> st.isDir, isCGI |-> isCGI,
                  err |-> IF BitAnd(st.mode, needPerm) # needPerm THEN forbiddenError ELSE NoError]

getStats(path) ==
    LET st == Stat(path)
        none == [isFile |-> FALSE, isDir |-> FALSE, isCGI |-> FALSE, err |-> NoError]
    IN  IF st.errno # "OK"
        THEN [none EXCEPT !.err = IF st.errno = "ENOENT" THEN fileNotFoundError ELSE forbiddenError]
        ELSE IF ~st.isDir /\ Ext(path) \in excluded
        THEN [none EXCEPT !.err = forbiddenError]
        ELSE LET isCGI == ~st.isDir /\ HasSuffix(path, cgiExt)
                 needPerm == IF st.isDir \/ isCGI THEN 5 ELSE 4
             IN  [isFile |-> ~st.isDir, isDir |-> st.isDir, isCGI |-> isCGI,
                  err |-> IF BitAnd(st.mode, needPerm) # needPerm THEN forbiddenError ELSE NoError]

(***************************************************************************)
(* splitScriptPathAndPathInfo.  A candidate is the triple of the Go        *)
(* variables fsPath, split and err.                                        *)
(***************************************************************************)
\* the probe that remembers the index file but not the path position
RECURSIVE ProbeIndexNoSplit(_, _, _, _)
ProbeIndexNoSplit(curPath, n, i, cand) ==
    IF i > Len(indexPaths) THEN cand
    ELSE LET pathWithIndex == curPath \o indexPaths[i]
             st == getStats(pathWithIndex)
         IN  ProbeIndexNoSplit(curPath, n, i + 1,
                 IF st.err = NoError /\ st.isFile
                 THEN [fsPath |-> pathWithIndex, split |-> cand.split, err |-> NoError]
                 ELSE cand)

\* the probe that keeps the first directory in which it found an index file
RECURSIVE ProbeIndexKeepFirst(_, _, _, _)
ProbeIndexKeepFirst(curPath, n, i, cand) ==
    IF i > Len(indexPaths) THEN cand
    ELSE LET pathWithIndex == curPath \o indexPaths[i]
             st == getStats(pathWithIndex)
         IN  ProbeIndexKeepFirst(curPath, n, i + 1,
                 IF st.err = NoError /\ st.isFile /\ (cand.err # NoError \/ cand.split = n)
                 THEN [fsPath |-> pathWithIndex, split |-> n, err |-> NoError]
                 ELSE cand)

RECURSIVE ProbeIndex(_, _, _, _)
ProbeIndex(curPath, n, i, cand) ==
    IF i > Len(indexPaths) THEN cand
    ELSE LET pathWithIndex == curPath \o indexPaths[i]
             st == getStats(pathWithIndex)
         IN  ProbeIndex(curPath, n, i + 1,
                 IF st.err = NoError /\ st.isFile
                 THEN [fsPath |-> pathWithIndex, split |-> n, err |-> NoError]
                 ELSE cand)

RECURSIVE ScanLoop(_, _, _)
ScanLoop(path, n, cand) ==
    LET curPath == SubSeq(path, 1, n)
        st == getStats(curPath)
    IN  IF st.isFile THEN [cand EXCEPT !.fsPath = curPath, !.split = n]
        ELSE IF st.err # NoError \/ ~st.isDir THEN cand
        ELSE LET c == ProbeIndex(curPath, n, 1, cand)
                 next == ComponentEnd(path, n + 1)
             IN  IF n = Len(path) THEN c
                 ELSE IF next = Len(path) /\ path[next] = "/" THEN c
                 ELSE ScanLoop(path, next, c)

\* splitScriptPathAndPathInfo with the path-info cut one byte late
splitScriptPathAndPathInfoLateCut(path, startLength) ==
    LET st == getStats(path)
    IN  IF st.err = NoError /\ st.isFile
        THEN [fsPath |-> path, scriptName |-> From(path, startLength),
              pathInfo |-> Empty, err |-> NoError]
        ELSE IF cgiExt \in excluded
        THEN [fsPath |-> Empty, scriptName |-> Empty, pathInfo |-> Empty,
              err |-> fileNotFoundError]
        ELSE LET c == ScanLoop(path, startLength,
                          [fsPath |-> Empty, split |-> startLength, err |-> fileNotFoundError])
             IN  [fsPath |-> c.fsPath,
                  scriptName |-> SubSeq(path, startLength + 1, c.split),
                  pathInfo |-> From(path, c.split + 1),
                  err |-> c.err]

\* splitScriptPathAndPathInfo with the document root left in scriptName
splitScriptPathAndPathInfoKeepRoot(path, startLength) ==
    LET st == getStats(path)
    IN  IF st.err = NoError /\ st.isFile
        THEN [fsPath |-> path, scriptName |-> path,
              pathInfo |-> Empty, err |-> NoError]
        ELSE IF cgiExt \in excluded
        THEN [fsPath |-> Empty, scriptName |-> Empty, pathInfo |-> Empty,
              err |-> fileNotFoundError]
        ELSE LET c == ScanLoop(path, startLength,
                          [fsPath |-> Empty, split |-> startLength, err |-> fileNotFoundError])
             IN  [fsPath |-> c.fsPath,
                  scriptName |-> SubSeq(path, 1, c.split),
                  pathInfo |-> From(path, c.split),
                  err |-> c.err]

splitScriptPathAndPathInfo(path, startLength) ==
    LET st == getStats(path)
    IN  IF st.err = NoError /\ st.isFile
        THEN [fsPath |-> path, scriptName |-> From(path, startLength),
              pathInfo |-> Empty, err |-> NoError]
        ELSE IF cgiExt \in excluded
        THEN [fsPath |-> Empty, scriptName |-> Empty, pathInfo |-> Empty,
              err |-> fileNotFoundError]
        ELSE LET c == ScanLoop(path, startLength,
                          [fsPath |-> Empty, split |-> startLength, err |-> fileNotFoundError])
             IN  [fsPath |-> c.fsPath,
                  scriptName |-> SubSeq(path, startLength + 1, c.split),
                  pathInfo |-> From(path, c.split),
                  err |-> c.err]

(***************************************************************************)
(* splitPath                                                               *)
(***************************************************************************)
NoResult(e) == [fsPath |-> Empty, scriptName |-> Empty, pathInfo |-> Empty, err |-> e]

\* splitPath without the test for a NUL in the decoded path
splitPathNoNulCheck(root, path) ==
    LET u == PathUnescape(path)
    IN  IF ~u.ok THEN NoResult(badRequestError)
        ELSE LET np == normalizePath(u.val)
             IN  IF ~np.ok THEN NoResult(forbiddenError)
                 ELSE splitScriptPathAndPathInfo(root \o np.out, Len(root))

splitPath(root, path) ==
    LET u == PathUnescape(path)
    IN  IF ~u.ok \/ Contains(u.val, "NUL") THEN NoResult(badRequestError)
        ELSE LET np == normalizePath(u.val)
             IN  IF ~np.ok THEN NoResult(forbiddenError)
                 ELSE splitScriptPathAndPathInfo(root \o np.out, Len(root))

(***************************************************************************)
(* Responses: the reader (the error menu, the opened file or the stdout    *)
(* pipe of the child), the status and whether a child handle is carried.   *)
(***************************************************************************)
\* the configured server host and the port put into menus; a string made by
\* fmt.Sprintf is the sequence of its pieces
serverhost == <<"localhost">>
serverport == <<"70">>

\* the message of a responseError
message(e) ==
    CASE e = badRequestError -> <<"Bad request.">>
      [] e = fileNotFoundError -> <<"File not found.">>
      [] e = forbiddenError -> <<"Forbidden.">>
      [] e = internalServerErrorError -> <<"Internal server error.">>

\* a directory entry with one tab between the display string and the host
makeDirEntryOneTab(gtype, user, host, port) ==
    <<gtype>> \o user \o <<"TAB">> \o host \o <<"TAB">> \o port
        \o <<"CR", "LF", ".", "CR", "LF">>

\* fmt.Sprintf("%c%s\t\t%s\t%s\r\n.\r\n", gtype, user, host, port)
makeDirEntry(gtype, user, host, port) ==
    <<gtype>> \o user \o <<"TAB", "TAB">> \o host \o <<"TAB">> \o port
        \o <<"CR", "LF", ".", "CR", "LF">>

\* body is what the strings.Reader of the response holds
makeErrorResponse(e) ==
    [reader |-> "error", status |-> e, cmd |-> FALSE,
     body |-> makeDirEntry("3", message(e), serverhost, serverport)]

\* spawnOK: whether the operating system lets the pipe be created and the
\* child be forked; exec fails in any case without execute permission
runCGI(fsPath, spawnOK) ==
    IF spawnOK /\ CanExec(Stat(fsPath).mode)
    THEN [reader |-> "stdout", status |-> okStatus, cmd |-> TRUE]
    ELSE makeErrorResponse(internalServerErrorError)

\* getResponseFromPath without the path-info check for plain files
getResponseFromPathAnyPathInfo(fsPath, pathInfo, spawnOK) ==
    LET o == Open(fsPath)
    IN  IF o # "OK"
        THEN IF o = "ENOENT" THEN makeErrorResponse(fileNotFoundError)
             ELSE makeErrorResponse(forbiddenError)
        ELSE IF HasSuffix(fsPath, cgiExt) THEN runCGI(fsPath, spawnOK)
        ELSE [reader |-> "file", status |-> okStatus, cmd |-> FALSE]

getResponseFromPath(fsPath, pathInfo, spawnOK) ==
    LET o == Open(fsPath)
    IN  IF o # "OK"
        THEN IF o = "ENOENT" THEN makeErrorResponse(fileNotFoundError)
             ELSE makeErrorResponse(forbiddenError)
        ELSE IF HasSuffix(fsPath, cgiExt) THEN runCGI(fsPath, spawnOK)
        ELSE IF pathInfo # Empty THEN makeErrorResponse(fileNotFoundError)
        ELSE [reader |-> "file", status |-> okStatus, cmd |-> FALSE]

(***************************************************************************)
(* Inputs of the resolver: document-root layouts and request paths.        *)
(***************************************************************************)
\* permission bits from their octal digits (owner, group, others)
Octal(o, g, w) == 64 * o + 8 * g + w

Absent == -1
Mode000 == Octal(0, 0, 0)
Mode004 == Octal(0, 0, 4)
Mode644 == Octal(6, 4, 4)
Mode700 == Octal(7, 0, 0)
Mode755 == Octal(7, 5, 5)

segD == <<"d">>
segS == <<"s">> \o cgiExt
segT == <<"t">> \o mapExt

pathD == rootPath \o <<"/">> \o segD
pathT == rootPath \o <<"/">> \o segT
pathS == rootPath \o <<"/">> \o segS

MkLayout(i, m, t, s, d, di) ==
    LET cand == (rootPath :> [isDir |-> TRUE, mode |-> Mode755])
             @@ ((rootPath \o indexCgiPath) :> [isDir |-> FALSE, mode |-> i])
             @@ ((rootPath \o indexMapPath) :> [isDir |-> FALSE, mode |-> m])
             @@ (pathT :> [isDir |-> FALSE, mode |-> t])
             @@ (pathS :> [isDir |-> FALSE, mode |-> s])
             @@ (pathD :> [isDir |-> TRUE, mode |-> d])
             @@ ((pathD \o indexCgiPath) :> [isDir |-> FALSE, mode |-> di])
    IN  [p \in {q \in DOMAIN cand : cand[q].mode # Absent} |-> cand[p]]

Layouts ==
    { MkLayout(i, m, t, s, d, di) :
        i \in {Absent, Mode755}, m \in {Absent, Mode644},
        t \in {Absent, Mode644, Mode000, Mode004},
        s \in {Mode755, Mode644},
        d \in {Mode755, Mode700},
        di \in {Absent, Mode755} }

\* a layout is a tree: nothing exists below an absent directory
IsTree(layout) ==
    \A p \in DOMAIN layout : HasPrefix(p, pathD \o <<"/">>) => pathD \in DOMAIN layout

ExcludedSets == { {}, {cgiExt}, {mapExt} }

Segs == {segD, segS, segT, DotDot}

SegSeqs == UNION { [1..k -> Segs] : k \in 0..MaxSegs }

RECURSIVE Join(_, _, _)
Join(segs, sep, i) ==
    IF i > Len(segs) THEN Empty
    ELSE sep \o segs[i] \o Join(segs, sep, i + 1)

\* percent-encode the slashes and the dots of a string
RECURSIVE Encode(_, _)
Encode(s, i) ==
    IF i > Len(s) THEN Empty
    ELSE (CASE s[i] = "/" -> <<"%", "2", "F">>
            [] s[i] = "." -> <<"%", "2", "e">>
            [] OTHER -> <<s[i]>>) \o Encode(s, i + 1)

\* the spellings of a request path: plain, with a trailing slash, without
\* the leading slash and with repeated slashes and a final dot, encoded
Render(segs, style) ==
    CASE style = "plain" -> Join(segs, <<"/">>, 1)
      [] style = "trailing" -> Join(segs, <<"/">>, 1) \o <<"/">>
      [] style = "messy" -> From(Join(segs, <<"/", "/">>, 1) \o <<"/", ".">>, 2)
      [] style = "encoded" -> Encode(Join(segs, <<"/">>, 1), 1)

Styles == {"plain", "trailing", "messy", "encoded"}

RawPaths ==
    { Render(segs, style) : segs \in SegSeqs, style \in Styles }
        \cup { <<"%", "2", ".">> \o segT, <<"%", "0", "0">> }

(***************************************************************************)
(* The resolver and responder as a state machine: one request is resolved  *)
(* and answered against a document root.                                   *)
(***************************************************************************)
VARIABLES ppc, reqPath, norm, res, resp

varsPath == <<fs, excluded, procIsOwner, ppc, reqPath, norm, res, resp>>

NoResponse == [reader |-> "none", status |-> 0, cmd |-> FALSE]

\* the normalized request path, when there is one
Normalized(raw) ==
    LET u == PathUnescape(raw)
    IN  IF ~u.ok \/ Contains(u.val, "NUL") THEN [ok |-> FALSE, out |-> Empty]
        ELSE normalizePath(u.val)

\* the normalized form of every request path that is examined
NormalizedPaths == [raw \in RawPaths |-> Normalized(raw)]

PathIdle ==
    /\ ppc = "idle"
    /\ reqPath = Empty
    /\ norm = [ok |-> FALSE, out |-> Empty]
    /\ res = NoResult(NoError)
    /\ resp = NoResponse

\* the resolver at rest, while another part of the server is examined
PathParked ==
    /\ fs = MkLayout(Absent, Mode644, Absent, Absent, Absent, Absent)
    /\ excluded = {}
    /\ procIsOwner = FALSE
    /\ PathIdle

\* creating the pipe and starting the child can fail; nothing else is spawned
SpawnOutcomes(fsPath) == IF HasSuffix(fsPath, cgiExt) THEN BOOLEAN ELSE {TRUE}

getResponseForRequest(path) ==
    /\ ppc = "idle"
    /\ res' = splitPath(rootPath, path)
    /\ \E spawnOK \in SpawnOutcomes(res'.fsPath) :
           resp' = IF res'.err # NoError THEN makeErrorResponse(res'.err)
                   ELSE getResponseFromPath(res'.fsPath, res'.pathInfo, spawnOK)
    /\ reqPath' = path
    /\ norm' = NormalizedPaths[path]
    /\ ppc' = "done"
    /\ UNCHANGED <<fs, excluded, procIsOwner>>

(***************************************************************************)
(* Request bytes.  A byte string is kept run-length encoded, as a sequence *)
(* of runs [b, n] of n >= 1 equal bytes with adjacent runs of different    *)
(* bytes, so that requests of thousands of bytes stay small.  The bytes    *)
(* are "a" (any ordinary byte), "CR", "LF" and "NUL".                      *)
(***************************************************************************)
Run(b, n) == [b |-> b, n |-> n]

RECURSIVE BLenFrom(_, _)
BLenFrom(s, i) == IF i > Len(s) THEN 0 ELSE s[i].n + BLenFrom(s, i + 1)

\* len(s)
BLen(s) == BLenFrom(s, 1)

\* bytes.Contains(s, []byte{b})
BContains(s, b) == \E i \in 1..Len(s) : s[i].b = b

\* the first run of byte b, or Len(s) + 1
RECURSIVE FirstRun(_, _, _)
FirstRun(s, b, i) ==
    IF i > Len(s) \/ s[i].b = b THEN i ELSE FirstRun(s, b, i + 1)

\* bytes.IndexByte(s, b): the 0-based index of the first b, or -1
BIndexByte(s, b) ==
    IF ~BContains(s, b) THEN -1
    ELSE BLen(SubSeq(s, 1, FirstRun(s, b, 1) - 1))

\* the part before the first b (the first result of bytes.Cut)
BBefore(s, b) == SubSeq(s, 1, FirstRun(s, b, 1) - 1)

\* append(s, t...)
BAppend(s, t) ==
    IF Len(s) = 0 THEN t
    ELSE IF Len(t) = 0 THEN s
    ELSE IF s[Len(s)].b = t[1].b
         THEN SubSeq(s, 1, Len(s) - 1) \o <<Run(t[1].b, s[Len(s)].n + t[1].n)>> \o Tail(t)
         ELSE s \o t

\* s followed by the runs of t from the i-th on
RECURSIVE BConcat(_, _, _)
BConcat(s, t, i) ==
    IF i > Len(t) THEN s ELSE BConcat(BAppend(s, <<t[i]>>), t, i + 1)

\* s[:len(s)-1] of a non-empty s
BDropLast(s) ==
    IF s[Len(s)].n = 1 THEN SubSeq(s, 1, Len(s) - 1)
    ELSE [s EXCEPT ![Len(s)].n = @ - 1]

(***************************************************************************)
(* readRequest.  One action is one iteration of the read loop: a read of   *)
(* the socket, the checks on the bytes read and the loop condition.        *)
(***************************************************************************)
maxRequestSize == 16384
readChunkSize == 4096

\* number of short reads (of at most 3 bytes) explored per request
MaxSmallReads == 2

\* the clock runs from 0 to MaxTime; the configured timeouts are whole seconds
MaxTime == 3
MaxTimeout == 2
Timeouts == 0..MaxTimeout

\* stream is every byte that the reads of the socket have delivered so far;
\* now is the clock, readStart the time at which readRequest was entered;
\* response is the variable of handleConn, resolverCalls the number of calls
\* of getResponseForRequest made for this connection
VARIABLES rpc, requestBuf, request, smallReads, stream,
          requestReadTimeout, now, readStart, readDeadline,
          response, resolverCalls

varsRead == <<rpc, requestBuf, request, smallReads, stream,
              requestReadTimeout, now, readStart, readDeadline,
              response, resolverCalls>>

\* a socket deadline: not set, or set to the time at
NoDeadline == [set |-> FALSE, at |-> 0]
DeadlineAt(t) == [set |-> TRUE, at |-> t]

\* a deadline that was set has passed
Expired(d) == d.set /\ now > d.at

SmallChunks ==
    { <<Run("a", 1)>>, <<Run("LF", 1)>>, <<Run("CR", 1)>>, <<Run("NUL", 1)>>,
      <<Run("CR", 1), Run("LF", 1)>>,
      <<Run("a", 1), Run("CR", 1)>>,
      <<Run("CR", 1), Run("a", 1), Run("LF", 1)>>,
      <<Run("a", 1), Run("LF", 1), Run("a", 1)>>,
      <<Run("LF", 1), Run("NUL", 1)>> }

LargeChunks ==
    { <<Run("a", readChunkSize)>>,
      <<Run("a", readChunkSize - 1)>>,
      <<Run("a", readChunkSize - 1), Run("LF", 1)>>,
      <<Run("a", readChunkSize - 2), Run("CR", 1), Run("LF", 1)>> }

\* what one Read of the socket can deliver: between 1 and 4096 bytes
Chunks == SmallChunks \cup LargeChunks

ReadIdle ==
    /\ rpc = "start"
    /\ requestBuf = << >>
    /\ request = << >>
    /\ smallReads = 0
    /\ stream = << >>
    /\ now = 0
    /\ readStart = 0
    /\ readDeadline = NoDeadline
    /\ response = NoResponse
    /\ resolverCalls = 0

\* the reader at rest, while another part of the server is examined
ReadParked == ReadIdle /\ requestReadTimeout = 0

\* an iteration that looks for the CR in the bytes of this read only
ReadStepCRInChunk(buf, chunk) ==
    IF BContains(chunk, "NUL") THEN [pc |-> "error", buf |-> buf, request |-> << >>]
    ELSE LET before == BBefore(chunk, "LF")
             foundLF == BContains(chunk, "LF")
             newBuf == BAppend(buf, before)
             crIndex == BIndexByte(before, "CR")
             lastByte == BLen(before) - 1
         IN  IF foundLF
             THEN IF crIndex # -1
                  THEN IF crIndex # lastByte
                       THEN [pc |-> "error", buf |-> newBuf, request |-> << >>]
                       ELSE [pc |-> "ok", buf |-> BDropLast(newBuf), request |-> BDropLast(newBuf)]
                  ELSE [pc |-> "ok", buf |-> newBuf, request |-> newBuf]
             ELSE IF BLen(newBuf) < maxRequestSize
                  THEN [pc |-> "reading", buf |-> newBuf, request |-> << >>]
                  ELSE [pc |-> "error", buf |-> newBuf, request |-> << >>]

\* the result of the iteration that read chunk into buf[:n]
ReadStep(buf, chunk) ==
    IF BContains(chunk, "NUL") THEN [pc |-> "error", buf |-> buf, request |-> << >>]
    ELSE LET before == BBefore(chunk, "LF")
             foundLF == BContains(chunk, "LF")
             newBuf == BAppend(buf, before)
             crIndex == BIndexByte(newBuf, "CR")
             lastByte == BLen(newBuf) - 1
         IN  IF foundLF
             THEN IF crIndex # -1
                  THEN IF crIndex # lastByte
                       THEN [pc |-> "error", buf |-> newBuf, request |-> << >>]
                       ELSE [pc |-> "ok", buf |-> BDropLast(newBuf), request |-> BDropLast(newBuf)]
                  ELSE [pc |-> "ok", buf |-> newBuf, request |-> newBuf]
             ELSE IF BLen(newBuf) < maxRequestSize
                  THEN [pc |-> "reading", buf |-> newBuf, request |-> << >>]
                  ELSE [pc |-> "error", buf |-> newBuf, request |-> << >>]

(***************************************************************************)
(* splitRequest, applied to one request: a string of ordinary bytes,       *)
(* question marks and tabs.                                                *)
(***************************************************************************)
MaxReqLen == 5

\* the first position of c in s from i on, or Len(s) + 1
RECURSIVE IndexFrom(_, _, _)
IndexFrom(s, c, i) == IF i > Len(s) \/ s[i] = c THEN i ELSE IndexFrom(s, c, i + 1)

\* bytes.Cut(s, []byte{c})
Cut(s, c) ==
    LET i == IndexFrom(s, c, 1)
    IN  IF i > Len(s) THEN [before |-> s, after |-> Empty, found |-> FALSE]
        ELSE [before |-> SubSeq(s, 1, i - 1), after |-> SubSeq(s, i + 1, Len(s)),
              found |-> TRUE]

\* splitRequest without the second cut at a tab
splitRequestKeepTabs(req) ==
    LET first == Cut(req, "TAB")
        mark == Cut(first.before, "?")
    IN  [selector |-> first.before, path |-> mark.before, query |-> mark.after,
         search |-> first.after]

\* splitRequest with the query cut at a second question mark
splitRequestCutQuery(req) ==
    LET first == Cut(req, "TAB")
        mark == Cut(first.before, "?")
    IN  [selector |-> first.before, path |-> mark.before,
         query |-> Cut(mark.after, "?").before,
         search |-> Cut(first.after, "TAB").before]

splitRequest(req) ==
    LET first == Cut(req, "TAB")
        mark == Cut(first.before, "?")
    IN  [selector |-> first.before, path |-> mark.before, query |-> mark.after,
         search |-> Cut(first.after, "TAB").before]

Requests == UNION { [1..k -> {"a", "?", "TAB"}] : k \in 0..MaxReqLen }

VARIABLES spc, rawRequest, split

varsSplit == <<spc, rawRequest, split>>

NoSplit == [selector |-> Empty, path |-> Empty, query |-> Empty, search |-> Empty]

SplitIdle ==
    /\ spc = "idle"
    /\ split = NoSplit

\* splitRequest at rest, while another part of the server is examined
SplitParked == SplitIdle /\ rawRequest = Empty

\* selector, path, query, search := splitRequest(request)
DoSplitRequest ==
    /\ spc = "idle"
    /\ split' = splitRequest(rawRequest)
    /\ spc' = "done"
    /\ UNCHANGED rawRequest

(***************************************************************************)
(* normalizePath, applied to one string of slashes, dots and letters.      *)
(***************************************************************************)
MaxNormLen == 6

NormInputs == UNION { [1..k -> {"/", ".", "a"}] : k \in 0..MaxNormLen }

VARIABLES npc, normIn, normOut

varsNorm == <<npc, normIn, normOut>>

NormIdle ==
    /\ npc = "idle"
    /\ normOut = [ok |-> FALSE, out |-> Empty]

\* normalizePath at rest, while another part of the server is examined
NormParked == NormIdle /\ normIn = Empty

\* path, ok := normalizePath(path)
DoNormalizePath ==
    /\ npc = "idle"
    /\ normOut' = normalizePath(normIn)
    /\ npc' = "done"
    /\ UNCHANGED normIn

(***************************************************************************)
(* The accept loop of main and the connection handlers.  connChan is the   *)
(* number of tokens in the buffered channel; a handler is at the statement *)
(* named by its hpc, "none" when no handler runs on that connection slot.  *)
(***************************************************************************)
MaxConn == 2

connChanCapPlusOne == MaxConn + 1

\* make(chan struct{}, maxConn)
connChanCap == MaxConn

\* one connection more than the cap can be in flight at the listener
Conns == 1..(MaxConn + 1)

\* number of chunks written per response that are told apart
MaxWrites == 2

VARIABLES connChan, acceptPc, hpc, hresp, hsent

varsServer == <<connChan, acceptPc, hpc, hresp, hsent>>

\* one connection from the making of its response on: cpc is the statement
\* the handler is at, sent the number of chunks written in full, streamEnd
\* why the streaming loop was left, chunkAt the time at which the chunk in
\* hand was read from the response reader
VARIABLES cpc, responseProgressTimeout, writeDeadline, chunkAt, sent, streamEnd

\* the bytes of the response are named by their offsets in what the response
\* reader produces: readPos is the number of bytes read from it, streamBuf
\* the chunk in hand (n bytes from offset from), wire the pieces written to
\* the socket in order; infoStatus and transferred are the fields of
\* requestInfo, logLines what requestInfo.log printed, waits the number of
\* calls of response.cmd.Wait that returned
VARIABLES readPos, streamBuf, wire, infoStatus, transferred, logLines, waits

varsConn == <<cpc, responseProgressTimeout, writeDeadline, chunkAt, sent, streamEnd,
              readPos, streamBuf, wire, infoStatus, transferred, logLines, waits>>

\* the process-wide counters
VARIABLES requestCount, bytesTransferred

varsCounters == <<requestCount, bytesTransferred>>

\* handlers that finish concurrently: kpc is the statement each is at,
\* kstatus the status of its response, ktransferred its
\* requestInfo.transferred
VARIABLES kpc, kstatus, ktransferred

varsCount == <<kpc, kstatus, ktransferred>>

\* one call of runCGI: remote is conn.RemoteAddr().String(), cgiIn the
\* request and the resolved script, logHost the host of requestInfo, child
\* the command that was started
VARIABLES gpc, remote, cgiIn, logHost, child

varsCgi == <<gpc, remote, cgiIn, logHost, child>>

vars == <<fs, excluded, procIsOwner, ppc, reqPath, norm, res, resp,
          rpc, requestBuf, request, smallReads, stream,
          requestReadTimeout, now, readStart, readDeadline,
          response, resolverCalls,
          spc, rawRequest, split, npc, normIn, normOut,
          connChan, acceptPc, hpc, hresp, hsent,
          cpc, responseProgressTimeout, writeDeadline, chunkAt, sent, streamEnd,
          readPos, streamBuf, wire, infoStatus, transferred, logLines, waits,
          requestCount, bytesTransferred, kpc, kstatus, ktransferred,
          gpc, remote, cgiIn, logHost, child>>

ServerIdle ==
    /\ connChan = 0
    /\ acceptPc = "send"
    /\ hpc = [c \in Conns |-> "none"]
    /\ hresp = [c \in Conns |-> "none"]
    /\ hsent = [c \in Conns |-> 0]

\* connChan <- struct{}{}: blocks while the channel is full
AcceptSend ==
    /\ acceptPc = "send"
    /\ connChan < connChanCap
    /\ connChan' = connChan + 1
    /\ acceptPc' = "accept"
    /\ UNCHANGED <<hpc, hresp, hsent>>

\* listener.Accept() fails: the error is printed and the loop continues
AcceptError ==
    /\ acceptPc = "accept"
    /\ acceptPc' = "send"
    /\ UNCHANGED <<connChan, hpc, hresp, hsent>>

\* listener.Accept() returns a connection: go handleConn(conn)
AcceptConn(c) ==
    /\ acceptPc = "accept"
    /\ hpc[c] = "none"
    /\ hpc' = [hpc EXCEPT ![c] = "read"]
    /\ acceptPc' = "send"
    /\ UNCHANGED <<connChan, hresp, hsent>>

\* readRequest failed: the response is the error menu for BadRequest
HandlerReadFail(c) ==
    /\ hpc[c] = "read"
    /\ hresp' = [hresp EXCEPT ![c] = "error"]
    /\ hpc' = [hpc EXCEPT ![c] = "stream"]
    /\ UNCHANGED <<connChan, acceptPc, hsent>>

\* readRequest succeeded: splitRequest and getResponseForRequest give an
\* error menu, an opened file or the stdout pipe of a started child
HandlerRespond(c, r) ==
    /\ hpc[c] = "read"
    /\ hresp' = [hresp EXCEPT ![c] = r]
    /\ hpc' = [hpc EXCEPT ![c] = "stream"]
    /\ UNCHANGED <<connChan, acceptPc, hsent>>

\* one iteration of the streaming loop that reads and writes a chunk;
\* hsent counts the chunks added to requestInfo.transferred
HandlerStreamChunk(c) ==
    /\ hpc[c] = "stream"
    /\ hsent[c] < MaxWrites
    /\ hsent' = [hsent EXCEPT ![c] = @ + 1]
    /\ UNCHANGED <<connChan, acceptPc, hpc, hresp>>

\* the streaming loop ends (end of the response, write error, nothing
\* written); the deferred calls run last-in first-out, requestInfo.log first
HandlerStreamEnd(c) ==
    /\ hpc[c] = "stream"
    /\ hpc' = [hpc EXCEPT ![c] = "log"]
    /\ UNCHANGED <<connChan, acceptPc, hresp, hsent>>

\* deferred requestInfo.log(), then closer.Close() of a file or a pipe
HandlerLog(c) ==
    /\ hpc[c] = "log"
    /\ hpc' = [hpc EXCEPT ![c] = IF hresp[c] \in {"file", "stdout"} THEN "closeReader"
                                 ELSE "closeConn"]
    /\ hsent' = [hsent EXCEPT ![c] = 0]
    /\ UNCHANGED <<connChan, acceptPc, hresp>>

\* deferred closer.Close(), then response.cmd.Wait() if there is a child
HandlerCloseReader(c) ==
    /\ hpc[c] = "closeReader"
    /\ hpc' = [hpc EXCEPT ![c] = IF hresp[c] = "stdout" THEN "wait" ELSE "closeConn"]
    /\ UNCHANGED <<connChan, acceptPc, hresp, hsent>>

\* deferred response.cmd.Wait() returns
HandlerWait(c) ==
    /\ hpc[c] = "wait"
    /\ hpc' = [hpc EXCEPT ![c] = "closeConn"]
    /\ UNCHANGED <<connChan, acceptPc, hresp, hsent>>

\* deferred conn.Close()
HandlerCloseConn(c) ==
    /\ hpc[c] = "closeConn"
    /\ hpc' = [hpc EXCEPT ![c] = "release"]
    /\ hresp' = [hresp EXCEPT ![c] = "none"]
    /\ UNCHANGED <<connChan, acceptPc, hsent>>

\* deferred <-connChan: the handler takes one token out and exits
HandlerRelease(c) ==
    /\ hpc[c] = "release"
    /\ connChan > 0
    /\ connChan' = connChan - 1
    /\ hpc' = [hpc EXCEPT ![c] = "none"]
    /\ UNCHANGED <<acceptPc, hresp, hsent>>

(***************************************************************************)
(* One connection in handleConn from the streaming loop on, with the       *)
(* deferred calls in the order in which they run.                          *)
(***************************************************************************)
\* buf := make([]byte, 1000)
readBufSize == 1000

\* the values of n that response.Read(buf) returns with data that are told
\* apart: one byte and the whole buffer
ReadSizes == {1, readBufSize}

NoChunk == [from |-> 0, n |-> 0]

ConnIdle ==
    /\ cpc = "read"
    /\ writeDeadline = NoDeadline
    /\ chunkAt = 0
    /\ sent = 0
    /\ streamEnd = "none"
    /\ readPos = 0
    /\ streamBuf = NoChunk
    /\ wire = << >>
    /\ transferred = 0
    /\ logLines = << >>
    /\ waits = 0

\* the handler at rest, while another part of the server is examined
ConnParked == ConnIdle /\ responseProgressTimeout = 0 /\ infoStatus = 0

\* the counters of a process that has just started
CountersZero == requestCount = 0 /\ bytesTransferred = 0

\* the deadline armed before the first write only
ArmWriteDeadlineOnce ==
    IF responseProgressTimeout # 0 /\ ~writeDeadline.set
    THEN DeadlineAt(now + responseProgressTimeout)
    ELSE writeDeadline

\* if responseProgressTimeout != 0 { conn.SetWriteDeadline(now + timeout) }
ArmWriteDeadline ==
    IF responseProgressTimeout # 0 THEN DeadlineAt(now + responseProgressTimeout)
    ELSE writeDeadline

\* a second passes while the handler is blocked in response.Read or in
\* conn.Write
ConnTick ==
    /\ cpc \in {"read", "write"}
    /\ now < MaxTime
    /\ now' = now + 1
    /\ UNCHANGED <<varsConn, varsCounters, connChan>>

\* n, err := response.Read(buf): a chunk of n bytes (more) or nothing, which
\* ends the loop
StreamRead(more) ==
    /\ cpc = "read"
    /\ more => sent < MaxWrites
    /\ \E n \in IF more THEN ReadSizes ELSE {0} :
           /\ streamBuf' = [from |-> readPos, n |-> n]
           /\ readPos' = readPos + n
    /\ cpc' = IF more THEN "arm" ELSE "log"
    /\ chunkAt' = IF more THEN now ELSE chunkAt
    /\ streamEnd' = IF more THEN streamEnd ELSE "eof"
    /\ UNCHANGED <<responseProgressTimeout, writeDeadline, sent, wire, infoStatus,
                   transferred, logLines, waits, varsCounters, connChan, now>>

\* the write deadline is armed for the write that follows
StreamArm ==
    /\ cpc = "arm"
    /\ writeDeadline' = ArmWriteDeadline
    /\ cpc' = "write"
    /\ UNCHANGED <<responseProgressTimeout, chunkAt, sent, streamEnd, readPos, streamBuf,
                   wire, infoStatus, transferred, logLines, waits, varsCounters,
                   connChan, now>>

\* the numbers of bytes conn.Write can report for a chunk of n bytes: all of
\* them ("full"), some but not all with an error ("short"), none ("none")
Written(outcome, n) ==
    CASE outcome = "full" -> {n}
      [] outcome = "short" -> {k \in {1, n - 1} : 0 < k /\ k < n}
      [] outcome = "none" -> {0}

\* a write whose error makes the handler return without its deferred calls
StreamWriteAborting(outcome) ==
    /\ cpc = "write"
    /\ outcome = "full" => ~Expired(writeDeadline)
    /\ \E k \in Written(outcome, streamBuf.n) :
           /\ wire' = IF k = 0 THEN wire ELSE Append(wire, [from |-> streamBuf.from, n |-> k])
           /\ transferred' = transferred + k
    /\ cpc' = IF outcome = "full" THEN "read" ELSE "done"
    /\ sent' = IF outcome = "full" THEN sent + 1 ELSE sent
    /\ streamEnd' = CASE outcome = "full" -> streamEnd
                       [] outcome = "short" -> "shortWrite"
                       [] outcome = "none" -> "writeError"
    /\ UNCHANGED <<responseProgressTimeout, writeDeadline, chunkAt, readPos, streamBuf,
                   infoStatus, logLines, waits, varsCounters, connChan, now>>

\* a loop that goes on reading after a short write
StreamWriteContinuing(outcome) ==
    /\ cpc = "write"
    /\ outcome = "full" => ~Expired(writeDeadline)
    /\ \E k \in Written(outcome, streamBuf.n) :
           /\ wire' = IF k = 0 THEN wire ELSE Append(wire, [from |-> streamBuf.from, n |-> k])
           /\ transferred' = transferred + k
    /\ cpc' = IF outcome = "none" THEN "log" ELSE "read"
    /\ sent' = IF outcome = "full" THEN sent + 1 ELSE sent
    /\ streamEnd' = IF outcome = "none" THEN "writeError" ELSE streamEnd
    /\ UNCHANGED <<responseProgressTimeout, writeDeadline, chunkAt, readPos, streamBuf,
                   infoStatus, logLines, waits, varsCounters, connChan, now>>

\* a loop that counts only the chunks written in full
StreamWriteCountingFull(outcome) ==
    /\ cpc = "write"
    /\ outcome = "full" => ~Expired(writeDeadline)
    /\ \E k \in Written(outcome, streamBuf.n) :
           /\ wire' = IF k = 0 THEN wire ELSE Append(wire, [from |-> streamBuf.from, n |-> k])
           /\ transferred' = IF outcome = "full" THEN transferred + k ELSE transferred
    /\ cpc' = IF outcome = "full" THEN "read" ELSE "log"
    /\ sent' = IF outcome = "full" THEN sent + 1 ELSE sent
    /\ streamEnd' = CASE outcome = "full" -> streamEnd
                       [] outcome = "short" -> "shortWrite"
                       [] outcome = "none" -> "writeError"
    /\ UNCHANGED <<responseProgressTimeout, writeDeadline, chunkAt, readPos, streamBuf,
                   infoStatus, logLines, waits, varsCounters, connChan, now>>

\* n, err = conn.Write(buf[:n]); requestInfo.transferred += uint64(n): the
\* whole chunk ("full"), a part of it with an error ("short") or nothing
\* ("none"); nothing is written in full after the deadline; the loop goes on
\* after a write in full only
StreamWrite(outcome) ==
    /\ cpc = "write"
    /\ outcome = "full" => ~Expired(writeDeadline)
    /\ \E k \in Written(outcome, streamBuf.n) :
           /\ wire' = IF k = 0 THEN wire ELSE Append(wire, [from |-> streamBuf.from, n |-> k])
           /\ transferred' = transferred + k
    /\ cpc' = IF outcome = "full" THEN "read" ELSE "log"
    /\ sent' = IF outcome = "full" THEN sent + 1 ELSE sent
    /\ streamEnd' = CASE outcome = "full" -> streamEnd
                       [] outcome = "short" -> "shortWrite"
                       [] outcome = "none" -> "writeError"
    /\ UNCHANGED <<responseProgressTimeout, writeDeadline, chunkAt, readPos, streamBuf,
                   infoStatus, logLines, waits, varsCounters, connChan, now>>

\* the line that requestInfo.log prints: the status and the transferred
\* count, printed as "-" (dash) when it is 0
LogLine(status, n) == [status |-> status, transferred |-> n, dash |-> n = 0]

\* deferred requestInfo.log(): the line is printed and both counters are
\* added to; then closer.Close() of a file or a pipe
ConnLog ==
    /\ cpc = "log"
    /\ logLines' = Append(logLines, LogLine(infoStatus, transferred))
    /\ requestCount' = requestCount + 1
    /\ bytesTransferred' = bytesTransferred + transferred
    /\ cpc' = IF response.reader \in {"file", "stdout"} THEN "closeReader" ELSE "closeConn"
    /\ UNCHANGED <<responseProgressTimeout, writeDeadline, chunkAt, sent, streamEnd,
                   readPos, streamBuf, wire, infoStatus, transferred, waits,
                   connChan, now>>

\* a handler that closes the pipe and does not wait for the child
ConnCloseReaderNoWait ==
    /\ cpc = "closeReader"
    /\ cpc' = "closeConn"
    /\ UNCHANGED <<responseProgressTimeout, writeDeadline, chunkAt, sent, streamEnd,
                   readPos, streamBuf, wire, infoStatus, transferred, logLines, waits,
                   varsCounters, connChan, now>>

\* deferred closer.Close(), then response.cmd.Wait() if there is a child
ConnCloseReader ==
    /\ cpc = "closeReader"
    /\ cpc' = IF response.cmd THEN "wait" ELSE "closeConn"
    /\ UNCHANGED <<responseProgressTimeout, writeDeadline, chunkAt, sent, streamEnd,
                   readPos, streamBuf, wire, infoStatus, transferred, logLines, waits,
                   varsCounters, connChan, now>>

\* deferred response.cmd.Wait() returns
ConnWait ==
    /\ cpc = "wait"
    /\ waits' = waits + 1
    /\ cpc' = "closeConn"
    /\ UNCHANGED <<responseProgressTimeout, writeDeadline, chunkAt, sent, streamEnd,
                   readPos, streamBuf, wire, infoStatus, transferred, logLines,
                   varsCounters, connChan, now>>

\* deferred conn.Close()
ConnCloseConn ==
    /\ cpc = "closeConn"
    /\ cpc' = "release"
    /\ UNCHANGED <<responseProgressTimeout, writeDeadline, chunkAt, sent, streamEnd,
                   readPos, streamBuf, wire, infoStatus, transferred, logLines, waits,
                   varsCounters, connChan, now>>

\* deferred <-connChan: the handler takes one token out and exits
ConnRelease ==
    /\ cpc = "release"
    /\ connChan > 0
    /\ connChan' = connChan - 1
    /\ cpc' = "done"
    /\ UNCHANGED <<responseProgressTimeout, writeDeadline, chunkAt, sent, streamEnd,
                   readPos, streamBuf, wire, infoStatus, transferred, logLines, waits,
                   varsCounters, now>>

(***************************************************************************)
(* Handlers that finish concurrently: each leaves its streaming loop with  *)
(* some number of bytes transferred and runs the deferred requestInfo.log, *)
(* whose two atomic additions are steps of their own.                      *)
(***************************************************************************)
MaxHandlers == 2

Handlers == 1..MaxHandlers

\* the values of requestInfo.transferred at the end of streaming that are
\* told apart: nothing, one byte, one buffer, more than one buffer
TransferredValues == {0, 1, readBufSize, readBufSize + 1}

CountIdle ==
    /\ kpc = [c \in Handlers |-> "stream"]
    /\ ktransferred = [c \in Handlers |-> 0]

\* the handlers at rest, while another part of the server is examined
CountParked == CountIdle /\ kstatus = [c \in Handlers |-> okStatus]

\* the streaming loop of handler c ends with t bytes written
CountStreamEnd(c, t) ==
    /\ kpc[c] = "stream"
    /\ ktransferred' = [ktransferred EXCEPT ![c] = t]
    /\ kpc' = [kpc EXCEPT ![c] = "log"]
    /\ UNCHANGED <<kstatus, requestCount, bytesTransferred>>

\* fmt.Fprintf of the log line, then requestCount.Add(1)
CountAddRequest(c) ==
    /\ kpc[c] = "log"
    /\ requestCount' = requestCount + 1
    /\ kpc' = [kpc EXCEPT ![c] = "addBytes"]
    /\ UNCHANGED <<kstatus, ktransferred, bytesTransferred>>

\* the byte counter set to the handler's count instead of added to
CountAddBytesStore(c) ==
    /\ kpc[c] = "addBytes"
    /\ bytesTransferred' = ktransferred[c]
    /\ kpc' = [kpc EXCEPT ![c] = "done"]
    /\ UNCHANGED <<kstatus, ktransferred, requestCount>>

\* bytesTransferred.Add(r.transferred); log returns
CountAddBytes(c) ==
    /\ kpc[c] = "addBytes"
    /\ bytesTransferred' = bytesTransferred + ktransferred[c]
    /\ kpc' = [kpc EXCEPT ![c] = "done"]
    /\ UNCHANGED <<kstatus, ktransferred, requestCount>>

(***************************************************************************)
(* One request that is dispatched to a CGI: the remote address is cut in   *)
(* handleConn and in runCGI, and runCGI builds the command.                *)
(***************************************************************************)
\* strings.LastIndex(s, c): the 0-based index of the last c, -1 if none
LastIndex(s, c) ==
    IF Contains(s, c)
    THEN (CHOOSE i \in 1..Len(s) : s[i] = c /\ \A j \in (i + 1)..Len(s) : s[j] # c) - 1
    ELSE -1

safePath == <<"/usr/bin:/bin">>
serverSoftware == <<"Thirteen", "/", "0.0.0">>

\* the configured description
desc == Empty

\* the environment of the server process
osEnviron == <<[name |-> "HOME", value |-> <<"/", "h">>],
               [name |-> "PATH", value |-> <<"/", "p">>]>>

\* fmt.Sprintf("%d", n)
Itoa(n) == <<n>>

\* the command with search and query in each other's place
runCGICommandSwapped(addr, selector, fsPath, scriptName, pathInfo, query, search) ==
    LET lastSlash == LastIndex(fsPath, "/")
        cut == Cut(addr, ":")
        remoteAddr == cut.before
        remotePort == cut.after
        pathTranslated == IF pathInfo # Empty THEN rootPath \o pathInfo ELSE Empty
    IN  [path |-> fsPath,
         args |-> <<query, search, serverhost, serverport, pathInfo, selector>>,
         dir |-> IF lastSlash # -1 THEN SubSeq(fsPath, 1, lastSlash) ELSE rootPath,
         env |-> <<[name |-> "PATH", value |-> safePath],
                   [name |-> "GATEWAY_INTERFACE", value |-> <<"CGI/1.1">>],
                   [name |-> "SERVER_PROTOCOL", value |-> <<"GOPHER">>],
                   [name |-> "SERVER_SOFTWARE", value |-> serverSoftware],
                   [name |-> "REQUEST_METHOD", value |-> <<"GET">>],
                   [name |-> "PATH_INFO", value |-> pathInfo],
                   [name |-> "PATH_TRANSLATED", value |-> pathTranslated],
                   [name |-> "SERVER_NAME", value |-> serverhost],
                   [name |-> "SERVER_HOST", value |-> serverhost],
                   [name |-> "SERVER_PORT", value |-> serverport],
                   [name |-> "QUERY_STRING", value |-> query],
                   [name |-> "REMOTE_ADDR", value |-> remoteAddr],
                   [name |-> "REMOTE_HOST", value |-> remoteAddr],
                   [name |-> "REMOTE_PORT", value |-> remotePort],
                   [name |-> "SCRIPT_NAME", value |-> scriptName],
                   [name |-> "SCRIPT_FILENAME", value |-> fsPath],
                   [name |-> "GOPHER_SCRIPT_FILENAME", value |-> fsPath],
                   [name |-> "DOCUMENT_ROOT", value |-> rootPath],
                   [name |-> "GOPHER_DOCUMENT_ROOT", value |-> rootPath],
                   [name |-> "SERVER_DESCRIPTION", value |-> desc],
                   [name |-> "SEARCHREQUEST", value |-> search],
                   [name |-> "X_GOPHER_SEARCH", value |-> search],
                   [name |-> "QUERY_STRING_SEARCH", value |-> search],
                   [name |-> "QUERY_STRING_URL", value |-> query],
                   [name |-> "SELECTOR", value |-> selector],
                   [name |-> "GOPHER_DOCUMENT_SELECTOR", value |-> selector],
                   [name |-> "REQUEST", value |-> scriptName \o pathInfo],
                   [name |-> "THIRTEEN_UPTIME", value |-> Itoa(now)],
                   [name |-> "THIRTEEN_REQUESTS", value |-> Itoa(requestCount)],
                   [name |-> "THIRTEEN_BYTES", value |-> Itoa(bytesTransferred)]>>]

\* the command that runCGI builds: exec.Command(fsPath, search, query,
\* serverhost, serverport, pathInfo, selector), cmd.Dir and cmd.Env; a child
\* started with cmd.Env set gets that environment and nothing of osEnviron
runCGICommand(addr, selector, fsPath, scriptName, pathInfo, query, search) ==
    LET lastSlash == LastIndex(fsPath, "/")
        cut == Cut(addr, ":")
        remoteAddr == cut.before
        remotePort == cut.after
        pathTranslated == IF pathInfo # Empty THEN rootPath \o pathInfo ELSE Empty
    IN  [path |-> fsPath,
         args |-> <<search, query, serverhost, serverport, pathInfo, selector>>,
         dir |-> IF lastSlash # -1 THEN SubSeq(fsPath, 1, lastSlash) ELSE rootPath,
         env |-> <<[name |-> "PATH", value |-> safePath],
                   [name |-> "GATEWAY_INTERFACE", value |-> <<"CGI/1.1">>],
                   [name |-> "SERVER_PROTOCOL", value |-> <<"GOPHER">>],
                   [name |-> "SERVER_SOFTWARE", value |-> serverSoftware],
                   [name |-> "REQUEST_METHOD", value |-> <<"GET">>],
                   [name |-> "PATH_INFO", value |-> pathInfo],
                   [name |-> "PATH_TRANSLATED", value |-> pathTranslated],
                   [name |-> "SERVER_NAME", value |-> serverhost],
                   [name |-> "SERVER_HOST", value |-> serverhost],
                   [name |-> "SERVER_PORT", value |-> serverport],
                   [name |-> "QUERY_STRING", value |-> query],
                   [name |-> "REMOTE_ADDR", value |-> remoteAddr],
                   [name |-> "REMOTE_HOST", value |-> remoteAddr],
                   [name |-> "REMOTE_PORT", value |-> remotePort],
                   [name |-> "SCRIPT_NAME", value |-> scriptName],
                   [name |-> "SCRIPT_FILENAME", value |-> fsPath],
                   [name |-> "GOPHER_SCRIPT_FILENAME", value |-> fsPath],
                   [name |-> "DOCUMENT_ROOT", value |-> rootPath],
                   [name |-> "GOPHER_DOCUMENT_ROOT", value |-> rootPath],
                   [name |-> "SERVER_DESCRIPTION", value |-> desc],
                   [name |-> "SEARCHREQUEST", value |-> search],
                   [name |-> "X_GOPHER_SEARCH", value |-> search],
                   [name |-> "QUERY_STRING_SEARCH", value |-> search],
                   [name |-> "QUERY_STRING_URL", value |-> query],
                   [name |-> "SELECTOR", value |-> selector],
                   [name |-> "GOPHER_DOCUMENT_SELECTOR", value |-> selector],
                   [name |-> "REQUEST", value |-> scriptName \o pathInfo],
                   [name |-> "THIRTEEN_UPTIME", value |-> Itoa(now)],
                   [name |-> "THIRTEEN_REQUESTS", value |-> Itoa(requestCount)],
                   [name |-> "THIRTEEN_BYTES", value |-> Itoa(bytesTransferred)]>>]

\* client addresses as conn.RemoteAddr().String() gives them: IPv4
\* "host:port" and IPv6 "[host]:port"
RemoteAddrs ==
    {<<"192.0.2.7", ":", "5070">>,
     <<"[", ":", ":", "1", "]", ":", "5070">>,
     <<"[", "2001", ":", "db8", ":", ":", "7", "]", ":", "70">>}

\* what the resolver gives for a request that ends at a CGI: the script
\* itself or the index.cgi of a directory, with and without path info
CgiTargets ==
    {[fsPath |-> pathS, scriptName |-> <<"/">> \o segS, pathInfo |-> Empty],
     [fsPath |-> pathS, scriptName |-> <<"/">> \o segS, pathInfo |-> <<"/", "a">>],
     [fsPath |-> pathD \o indexCgiPath, scriptName |-> <<"/">> \o segD, pathInfo |-> Empty],
     [fsPath |-> pathD \o indexCgiPath, scriptName |-> <<"/">> \o segD,
      pathInfo |-> <<"/", "a">>],
     [fsPath |-> rootPath \o indexCgiPath, scriptName |-> Empty, pathInfo |-> Empty],
     [fsPath |-> rootPath \o indexCgiPath, scriptName |-> Empty, pathInfo |-> <<"/">>]}

\* what follows the path in the request line: a query, a search string
RequestTails ==
    {Empty, <<"?", "q">>, <<"TAB", "s">>, <<"?", "q", "TAB", "s">>,
     <<"?", "q", "?", "r">>, <<"TAB", "s", "TAB", "t">>}

NoChild == [path |-> Empty, args |-> << >>, dir |-> Empty, env |-> << >>]

CgiIdle ==
    /\ gpc = "idle"
    /\ logHost = Empty
    /\ child = NoChild

\* no CGI request, while another part of the server is examined
CgiParked ==
    /\ CgiIdle
    /\ remote = Empty
    /\ cgiIn = [request |-> Empty, fsPath |-> Empty, scriptName |-> Empty, pathInfo |-> Empty]

\* handleConn: remoteAddr, _, _ = strings.Cut(remoteAddr, ":");
\* requestInfo.host = remoteAddr
CgiRemoteAddr ==
    /\ gpc = "idle"
    /\ logHost' = Cut(remote, ":").before
    /\ gpc' = "accepted"
    /\ UNCHANGED <<remote, cgiIn, child>>

\* splitRequest, then runCGI for the script the request resolved to
CgiRun ==
    /\ gpc = "accepted"
    /\ LET sp == splitRequest(cgiIn.request)
       IN  child' = runCGICommand(remote, sp.selector, cgiIn.fsPath, cgiIn.scriptName,
                                  cgiIn.pathInfo, sp.query, sp.search)
    /\ gpc' = "done"
    /\ UNCHANGED <<remote, cgiIn, logHost>>

(***************************************************************************)
(* The specifications.  Spec is the accept loop with its handlers,         *)
(* SpecPath one request through the resolver and the responder, SpecRead   *)
(* one request through readRequest.                                        *)
(***************************************************************************)
Init ==
    /\ ServerIdle
    /\ PathParked
    /\ ReadParked
    /\ SplitParked
    /\ NormParked
    /\ ConnParked
    /\ CountersZero
    /\ CountParked
    /\ CgiParked

Next ==
    \/ AcceptSend /\ UNCHANGED <<varsPath, varsRead, varsSplit, varsNorm, varsConn, varsCounters, varsCount, varsCgi>>
    \/ AcceptError /\ UNCHANGED <<varsPath, varsRead, varsSplit, varsNorm, varsConn, varsCounters, varsCount, varsCgi>>
    \/ \E c \in Conns : AcceptConn(c) /\ UNCHANGED <<varsPath, varsRead, varsSplit, varsNorm, varsConn, varsCounters, varsCount, varsCgi>>
    \/ \E c \in Conns : HandlerReadFail(c) /\ UNCHANGED <<varsPath, varsRead, varsSplit, varsNorm, varsConn, varsCounters, varsCount, varsCgi>>
    \/ \E c \in Conns, r \in {"error", "file", "stdout"} :
           HandlerRespond(c, r) /\ UNCHANGED <<varsPath, varsRead, varsSplit, varsNorm, varsConn, varsCounters, varsCount, varsCgi>>
    \/ \E c \in Conns : HandlerStreamChunk(c) /\ UNCHANGED <<varsPath, varsRead, varsSplit, varsNorm, varsConn, varsCounters, varsCount, varsCgi>>
    \/ \E c \in Conns : HandlerStreamEnd(c) /\ UNCHANGED <<varsPath, varsRead, varsSplit, varsNorm, varsConn, varsCounters, varsCount, varsCgi>>
    \/ \E c \in Conns : HandlerLog(c) /\ UNCHANGED <<varsPath, varsRead, varsSplit, varsNorm, varsConn, varsCounters, varsCount, varsCgi>>
    \/ \E c \in Conns : HandlerCloseReader(c) /\ UNCHANGED <<varsPath, varsRead, varsSplit, varsNorm, varsConn, varsCounters, varsCount, varsCgi>>
    \/ \E c \in Conns : HandlerWait(c) /\ UNCHANGED <<varsPath, varsRead, varsSplit, varsNorm, varsConn, varsCounters, varsCount, varsCgi>>
    \/ \E c \in Conns : HandlerCloseConn(c) /\ UNCHANGED <<varsPath, varsRead, varsSplit, varsNorm, varsConn, varsCounters, varsCount, varsCgi>>
    \/ \E c \in Conns : HandlerRelease(c) /\ UNCHANGED <<varsPath, varsRead, varsSplit, varsNorm, varsConn, varsCounters, varsCount, varsCgi>>

Spec == Init /\ [][Next]_vars

InitPath ==
    /\ fs \in {l \in Layouts : IsTree(l)}
    /\ excluded \in ExcludedSets
    /\ procIsOwner \in BOOLEAN
    /\ PathIdle
    /\ ServerIdle
    /\ ReadParked
    /\ SplitParked
    /\ NormParked
    /\ ConnParked
    /\ CountersZero
    /\ CountParked
    /\ CgiParked

NextPath ==
    \E path \in RawPaths : getResponseForRequest(path) /\ UNCHANGED <<varsServer, varsRead, varsSplit, varsNorm, varsConn, varsCounters, varsCount, varsCgi>>

SpecPath == InitPath /\ [][NextPath]_vars

InitRead ==
    /\ ReadIdle
    /\ requestReadTimeout \in Timeouts
    /\ ServerIdle
    /\ PathParked
    /\ SplitParked
    /\ NormParked
    /\ ConnParked
    /\ CountersZero
    /\ CountParked
    /\ CgiParked

\* the deadline armed on every entry, whatever the timeout
ArmReadDeadlineAlways == DeadlineAt(now + requestReadTimeout)

\* if requestReadTimeout != 0 { conn.SetReadDeadline(now + requestReadTimeout) }
ArmReadDeadline ==
    IF requestReadTimeout # 0 THEN DeadlineAt(now + requestReadTimeout)
    ELSE NoDeadline

\* readRequest is entered: the buffers are made and the deadline is armed
ReadStart ==
    /\ rpc = "start"
    /\ rpc' = "reading"
    /\ readStart' = now
    /\ readDeadline' = ArmReadDeadline
    /\ UNCHANGED <<requestBuf, request, smallReads, stream, requestReadTimeout,
                   now, response, resolverCalls>>

\* a second passes while the handler is blocked in a read
Tick ==
    /\ rpc = "reading"
    /\ now < MaxTime
    /\ now' = now + 1
    /\ UNCHANGED <<rpc, requestBuf, request, smallReads, stream, requestReadTimeout,
                   readStart, readDeadline, response, resolverCalls>>

\* reader.Read(buf) delivers a chunk, which it does not after the deadline
ReadChunk(chunk) ==
    /\ rpc = "reading"
    /\ ~Expired(readDeadline)
    /\ BLen(chunk) <= 3 => smallReads < MaxSmallReads
    /\ smallReads' = IF BLen(chunk) <= 3 THEN smallReads + 1 ELSE smallReads
    /\ rpc' = ReadStep(requestBuf, chunk).pc
    /\ requestBuf' = ReadStep(requestBuf, chunk).buf
    /\ request' = ReadStep(requestBuf, chunk).request
    /\ stream' = BConcat(stream, chunk, 1)
    /\ UNCHANGED <<requestReadTimeout, now, readStart, readDeadline,
                   response, resolverCalls>>

\* reader.Read(buf) returns an error (end of stream, reset, deadline)
ReadFail ==
    /\ rpc = "reading"
    /\ rpc' = "error"
    /\ UNCHANGED <<requestBuf, request, smallReads, stream, requestReadTimeout,
                   now, readStart, readDeadline, response, resolverCalls>>

\* what getResponseForRequest can return: an error menu, an opened file or
\* the stdout pipe of a started child
ResolverResponses ==
    { makeErrorResponse(e) : e \in {badRequestError, forbiddenError, fileNotFoundError,
                                      internalServerErrorError} }
        \cup { [reader |-> "file", status |-> okStatus, cmd |-> FALSE],
               [reader |-> "stdout", status |-> okStatus, cmd |-> TRUE] }

\* a handler that resolves whatever readRequest returned
HandleReadErrorResolving ==
    /\ rpc = "error"
    /\ response = NoResponse
    /\ response' \in ResolverResponses
    /\ resolverCalls' = resolverCalls + 1
    /\ UNCHANGED <<rpc, requestBuf, request, smallReads, stream, requestReadTimeout,
                   now, readStart, readDeadline>>

\* handleConn after a failed readRequest: the error menu for BadRequest
HandleReadError ==
    /\ rpc = "error"
    /\ response = NoResponse
    /\ response' = makeErrorResponse(badRequestError)
    /\ UNCHANGED <<rpc, requestBuf, request, smallReads, stream, requestReadTimeout,
                   now, readStart, readDeadline, resolverCalls>>

\* handleConn after a successful readRequest: splitRequest, then
\* getResponseForRequest gives the response r
HandleRequest(r) ==
    /\ rpc = "ok"
    /\ response = NoResponse
    /\ response' = r
    /\ resolverCalls' = resolverCalls + 1
    /\ UNCHANGED <<rpc, requestBuf, request, smallReads, stream, requestReadTimeout,
                   now, readStart, readDeadline>>

NextRead ==
    \/ ReadStart /\ UNCHANGED <<varsServer, varsPath, varsSplit, varsNorm, varsConn, varsCounters, varsCount, varsCgi>>
    \/ Tick /\ UNCHANGED <<varsServer, varsPath, varsSplit, varsNorm, varsConn, varsCounters, varsCount, varsCgi>>
    \/ \E chunk \in Chunks : ReadChunk(chunk) /\ UNCHANGED <<varsServer, varsPath, varsSplit, varsNorm, varsConn, varsCounters, varsCount, varsCgi>>
    \/ ReadFail /\ UNCHANGED <<varsServer, varsPath, varsSplit, varsNorm, varsConn, varsCounters, varsCount, varsCgi>>
    \/ HandleReadError /\ UNCHANGED <<varsServer, varsPath, varsSplit, varsNorm, varsConn, varsCounters, varsCount, varsCgi>>
    \/ \E r \in ResolverResponses : HandleRequest(r) /\ UNCHANGED <<varsServer, varsPath, varsSplit, varsNorm, varsConn, varsCounters, varsCount, varsCgi>>

SpecRead == InitRead /\ [][NextRead]_vars

\* the handler holds the token that the accept loop sent for it; readRequest
\* has returned the empty request or an error at once and the response is
\* made
InitConn ==
    /\ ConnIdle
    /\ CountersZero
    /\ CountParked
    /\ CgiParked
    /\ responseProgressTimeout \in Timeouts
    /\ connChan = 1
    /\ acceptPc = "send"
    /\ hpc = [c \in Conns |-> "none"]
    /\ hresp = [c \in Conns |-> "none"]
    /\ hsent = [c \in Conns |-> 0]
    /\ rpc \in {"ok", "error"}
    /\ response \in IF rpc = "ok" THEN ResolverResponses
                     ELSE {makeErrorResponse(badRequestError)}
    /\ infoStatus = response.status
    /\ resolverCalls = IF rpc = "ok" THEN 1 ELSE 0
    /\ stream = IF rpc = "ok" THEN <<Run("LF", 1)>> ELSE << >>
    /\ smallReads = IF rpc = "ok" THEN 1 ELSE 0
    /\ requestBuf = << >>
    /\ request = << >>
    /\ requestReadTimeout = 0
    /\ now = 0
    /\ readStart = 0
    /\ readDeadline = NoDeadline
    /\ PathParked
    /\ SplitParked
    /\ NormParked

\* what a step of the handler leaves alone outside its own variables
ConnFrame ==
    UNCHANGED <<varsPath, varsSplit, varsNorm, varsCount, varsCgi, acceptPc, hpc, hresp, hsent,
                rpc, requestBuf, request, smallReads, stream, requestReadTimeout,
                readStart, readDeadline, response, resolverCalls>>

NextConn ==
    \/ ConnTick /\ ConnFrame
    \/ \E more \in BOOLEAN : StreamRead(more) /\ ConnFrame
    \/ StreamArm /\ ConnFrame
    \/ \E outcome \in {"full", "short", "none"} : StreamWrite(outcome) /\ ConnFrame
    \/ ConnLog /\ ConnFrame
    \/ ConnCloseReader /\ ConnFrame
    \/ ConnWait /\ ConnFrame
    \/ ConnCloseConn /\ ConnFrame
    \/ ConnRelease /\ ConnFrame

SpecConn == InitConn /\ [][NextConn]_vars

InitCount ==
    /\ CountIdle
    /\ kstatus \in [Handlers -> {okStatus, badRequestStatus}]
    /\ CountersZero
    /\ ServerIdle
    /\ PathParked
    /\ ReadParked
    /\ SplitParked
    /\ NormParked
    /\ ConnParked
    /\ CgiParked

\* what a step of the counting leaves alone
CountFrame == UNCHANGED <<varsServer, varsPath, varsRead, varsSplit, varsNorm, varsConn, varsCgi>>

NextCount ==
    \/ \E c \in Handlers, t \in TransferredValues : CountStreamEnd(c, t) /\ CountFrame
    \/ \E c \in Handlers : CountAddRequest(c) /\ CountFrame
    \/ \E c \in Handlers : CountAddBytes(c) /\ CountFrame

SpecCount == InitCount /\ [][NextCount]_vars

\* the counters are those of a server that has or has not answered a
\* request before
InitCgi ==
    /\ CgiIdle
    /\ remote \in RemoteAddrs
    /\ \E target \in CgiTargets, tail \in RequestTails :
           cgiIn = [request |-> target.scriptName \o target.pathInfo \o tail,
                    fsPath |-> target.fsPath, scriptName |-> target.scriptName,
                    pathInfo |-> target.pathInfo]
    /\ requestCount \in {0, 1}
    /\ bytesTransferred = requestCount * readBufSize
    /\ ServerIdle
    /\ PathParked
    /\ ReadParked
    /\ SplitParked
    /\ NormParked
    /\ ConnParked
    /\ CountParked

\* what a step of the CGI request leaves alone
CgiFrame ==
    UNCHANGED <<varsServer, varsPath, varsRead, varsSplit, varsNorm, varsConn,
                varsCounters, varsCount>>

NextCgi ==
    \/ CgiRemoteAddr /\ CgiFrame
    \/ CgiRun /\ CgiFrame

SpecCgi == InitCgi /\ [][NextCgi]_vars

(***************************************************************************)
(* One connection from readRequest to the exit of its handler, with the    *)
(* steps that the handler takes by itself made fair.                       *)
(***************************************************************************)
\* the handler is in readRequest and holds the token that the accept loop
\* sent for it
InitLive ==
    /\ cpc = "request"
    /\ writeDeadline = NoDeadline
    /\ chunkAt = 0
    /\ sent = 0
    /\ streamEnd = "none"
    /\ readPos = 0
    /\ streamBuf = NoChunk
    /\ wire = << >>
    /\ transferred = 0
    /\ logLines = << >>
    /\ waits = 0
    /\ infoStatus = 0
    /\ responseProgressTimeout \in Timeouts
    /\ requestReadTimeout \in Timeouts
    /\ connChan = 1
    /\ acceptPc = "send"
    /\ hpc = [c \in Conns |-> "none"]
    /\ hresp = [c \in Conns |-> "none"]
    /\ hsent = [c \in Conns |-> 0]
    /\ ReadIdle
    /\ CountersZero
    /\ CountParked
    /\ CgiParked
    /\ PathParked
    /\ SplitParked
    /\ NormParked

\* readRequest returns, with the request (ok) or with an error, and the
\* response is made: requestInfo.status = response.status
LiveRequest(ok, r) ==
    /\ cpc = "request"
    /\ rpc' = IF ok THEN "ok" ELSE "error"
    /\ response' = r
    /\ resolverCalls' = IF ok THEN 1 ELSE 0
    /\ infoStatus' = r.status
    /\ cpc' = "read"
    /\ UNCHANGED <<varsServer, varsPath, varsSplit, varsNorm, varsCounters, varsCount, varsCgi,
                   requestBuf, request, smallReads, stream, requestReadTimeout, now,
                   readStart, readDeadline, responseProgressTimeout, writeDeadline,
                   chunkAt, sent, streamEnd, readPos, streamBuf, wire, transferred,
                   logLines, waits>>

\* readRequest returns by itself when its reads have a deadline
LiveRequestReturns ==
    /\ requestReadTimeout # 0
    /\ \E ok \in BOOLEAN :
           \E r \in IF ok THEN ResolverResponses ELSE {makeErrorResponse(badRequestError)} :
               LiveRequest(ok, r)

\* response.Read returns by itself when the reader is a file or a string;
\* the read of the pipe of a child returns when the child writes, closes its
\* output or exits
LiveReadReturns ==
    /\ ~response.cmd
    /\ \E more \in BOOLEAN : StreamRead(more) /\ ConnFrame

\* conn.Write returns by itself when it has a deadline
LiveWriteReturns ==
    /\ responseProgressTimeout # 0
    /\ \E outcome \in {"full", "short", "none"} : StreamWrite(outcome) /\ ConnFrame

NextLive ==
    \/ \E ok \in BOOLEAN :
           \E r \in IF ok THEN ResolverResponses ELSE {makeErrorResponse(badRequestError)} :
               LiveRequest(ok, r)
    \/ NextConn

\* cmd.Wait returns when the child exits, which no step of the server brings
\* about: ConnWait and the read of a pipe are not fair
LiveFairness ==
    /\ WF_vars(LiveRequestReturns)
    /\ WF_vars(LiveReadReturns)
    /\ WF_vars(StreamArm /\ ConnFrame)
    /\ WF_vars(LiveWriteReturns)
    /\ WF_vars(ConnLog /\ ConnFrame)
    /\ WF_vars(ConnCloseReader /\ ConnFrame)
    /\ WF_vars(ConnCloseConn /\ ConnFrame)
    /\ WF_vars(ConnRelease /\ ConnFrame)

SpecLive == InitLive /\ [][NextLive]_vars /\ LiveFairness

InitSplit ==
    /\ SplitIdle
    /\ rawRequest \in Requests
    /\ ServerIdle
    /\ PathParked
    /\ ReadParked
    /\ NormParked
    /\ ConnParked
    /\ CountersZero
    /\ CountParked
    /\ CgiParked

NextSplit ==
    DoSplitRequest /\ UNCHANGED <<varsServer, varsPath, varsRead, varsNorm, varsConn, varsCounters, varsCount, varsCgi>>

SpecSplit == InitSplit /\ [][NextSplit]_vars

InitNorm ==
    /\ NormIdle
    /\ normIn \in NormInputs
    /\ ServerIdle
    /\ PathParked
    /\ ReadParked
    /\ SplitParked
    /\ ConnParked
    /\ CountersZero
    /\ CountParked
    /\ CgiParked

NextNorm ==
    DoNormalizePath /\ UNCHANGED <<varsServer, varsPath, varsRead, varsSplit, varsConn, varsCounters, varsCount, varsCgi>>

SpecNorm == InitNorm /\ [][NextNorm]_vars

(***************************************************************************)
(* Properties of the resolver and of the responder (under SpecPath).       *)
(***************************************************************************)
Resolved == ppc = "done" /\ res.err = NoError

\* the permission rule on the world bits: 004 for a file, 005 for a CGI
NeedPerm(path) == IF HasSuffix(path, cgiExt) THEN 5 ELSE 4
PassesPermissionRule(path) == BitAnd(fs[path].mode, NeedPerm(path)) = NeedPerm(path)

IsRegularFile(path) == path \in DOMAIN fs /\ ~fs[path].isDir

\* the request names this existing regular file directly
RequestedFile == rootPath \o norm.out

\* the resolution is the index file of the directory scriptName
ViaIndex == \E i \in 1..Len(indexPaths) : res.fsPath = rootPath \o res.scriptName \o indexPaths[i]

\* C2: every successful resolution stays under the document root, has no
\* '..' segment in fsPath, and scriptName followed by pathInfo is the
\* normalized request path.
C2_ResolverSoundness ==
    Resolved =>
        /\ HasPrefix(res.fsPath, rootPath \o <<"/">>)
        /\ \A i \in 1..Len(Segments(res.fsPath)) : Segments(res.fsPath)[i] # DotDot
        /\ norm.ok
        /\ res.scriptName \o res.pathInfo = norm.out

\* a percent-encoded request with a '..' segment was resolved
C2_Witness ==
    /\ Resolved
    /\ Contains(reqPath, "%")
    /\ \E i \in 1..Len(Segments(PathUnescape(reqPath).val)) :
           Segments(PathUnescape(reqPath).val)[i] = DotDot
    /\ HasPrefix(res.fsPath, rootPath)

\* C3: no successful resolution names a regular file without world-read,
\* nor a .cgi file without world read and exec.
C3_PermissionGate ==
    Resolved => IsRegularFile(res.fsPath) /\ PassesPermissionRule(res.fsPath)

\* C4: no successful resolution names a file with an excluded extension,
\* so none is opened for serving or executed.
C4_ExcludedNeverReturned ==
    /\ Resolved => Ext(res.fsPath) \notin excluded
    /\ resp.reader \in {"file", "stdout"} => Ext(res.fsPath) \notin excluded

\* an existing file with an excluded extension was requested and the
\* resolution succeeded with another file
C4_Witness ==
    /\ Resolved
    /\ excluded # {}
    /\ IsRegularFile(RequestedFile)
    /\ Ext(RequestedFile) \in excluded
    /\ res.fsPath # RequestedFile

\* the normalized path is P + R with P = norm.out[:k] an existing permitted
\* regular file below traversable directories and R beginning with '/'
FileAtPrefix(k) ==
    /\ k < Len(norm.out)
    /\ norm.out[k + 1] = "/"
    /\ getStats(rootPath \o SubSeq(norm.out, 1, k)).isFile
    /\ getStats(rootPath \o SubSeq(norm.out, 1, k)).err = NoError
    /\ \A j \in 0..(k - 1) :
           norm.out[j + 1] = "/" =>
               /\ getStats(rootPath \o SubSeq(norm.out, 1, j)).isDir
               /\ getStats(rootPath \o SubSeq(norm.out, 1, j)).err = NoError

\* C5: a permitted regular file at a prefix of the path is the resolution
\* and the rest is the path-info, with or without index files on the way
\* (scripts not being excluded altogether).
C5_PathInfoAtFilePrefix ==
    (ppc = "done" /\ norm.ok /\ cgiExt \notin excluded) =>
        \A k \in 1..Len(norm.out) :
            FileAtPrefix(k) =>
                /\ res.err = NoError
                /\ res.fsPath = rootPath \o SubSeq(norm.out, 1, k)
                /\ res.scriptName = SubSeq(norm.out, 1, k)
                /\ res.pathInfo = From(norm.out, k)

\* C6: a fallback to the index of a directory that holds both index.cgi and
\* index.map as permitted files chooses index.cgi.
C6_IndexCgiFirst ==
    (Resolved /\ ViaIndex
        /\ \A i \in 1..Len(indexPaths) :
               /\ getStats(rootPath \o res.scriptName \o indexPaths[i]).isFile
               /\ getStats(rootPath \o res.scriptName \o indexPaths[i]).err = NoError)
    => res.fsPath = rootPath \o res.scriptName \o indexCgiPath

\* C7: a request naming an existing regular file that fails the permission
\* rule or has an excluded extension is answered Forbidden.
C7_ForbiddenOutcome ==
    (ppc = "done" /\ norm.ok /\ Stat(RequestedFile).errno = "OK" /\ IsRegularFile(RequestedFile)
        /\ (~PassesPermissionRule(RequestedFile) \/ Ext(RequestedFile) \in excluded))
    => res.err = forbiddenError

\* C8 as stated: path-info only with an fsPath ending in .cgi.
C8_PathInfoOnlyForCgi ==
    (Resolved /\ res.pathInfo # Empty) => HasSuffix(res.fsPath, cgiExt)

\* C8 as amended: with path-info, fsPath is the file at the prefix
\* scriptName or an index file (index.cgi or index.map) of the directory
\* scriptName, and pathInfo begins with '/'.
C8_PathInfoShape ==
    (Resolved /\ res.pathInfo # Empty) =>
        /\ res.pathInfo[1] = "/"
        /\ res.fsPath = rootPath \o res.scriptName \/ ViaIndex

\* path-info was produced for a file that is not a CGI
C8_Witness ==
    /\ Resolved
    /\ res.pathInfo # Empty
    /\ ~HasSuffix(res.fsPath, cgiExt)
    /\ res.fsPath = rootPath \o res.scriptName

LiveHandlers == {c \in Conns : hpc[c] # "none"}

\* C1: at most maxconn connection handlers are running, each holding a
\* token of the semaphore.
C1_ConcurrencyCap ==
    /\ Cardinality(LiveHandlers) <= MaxConn
    /\ Cardinality(LiveHandlers) <= connChan

\* maxconn handlers run and the accept loop is blocked on the full channel
C1_Witness ==
    /\ Cardinality(LiveHandlers) = MaxConn
    /\ acceptPc = "send"
    /\ connChan = connChanCap

(***************************************************************************)
(* Properties of readRequest (under SpecRead).                             *)
(***************************************************************************)
\* C10: a request that readRequest returns is at most 16384 bytes long.
C10_RequestLengthBound ==
    rpc = "ok" => BLen(request) <= maxRequestSize

\* the bytes of the stream before its first LF
RequestLine == BBefore(stream, "LF")

\* some CR of the line is not its last byte
CRMisplaced(line) ==
    \E i \in 1..Len(line) : line[i].b = "CR" /\ (i < Len(line) \/ line[i].n > 1)

\* C11: a returned request holds no NUL, LF or CR and is the line before the
\* first LF without one final CR; a NUL in any read and a CR that is not the
\* last byte before the LF make readRequest fail.
C11_RequestContent ==
    /\ rpc = "ok" =>
           /\ ~BContains(request, "NUL")
           /\ ~BContains(request, "LF")
           /\ ~BContains(request, "CR")
           /\ BContains(stream, "LF")
           /\ request = IF RequestLine # << >> /\ RequestLine[Len(RequestLine)].b = "CR"
                        THEN BDropLast(RequestLine)
                        ELSE RequestLine
    /\ BContains(stream, "NUL") => rpc = "error"
    /\ (BContains(stream, "LF") /\ CRMisplaced(RequestLine)) => rpc = "error"

\* the CR and the LF came in two reads of one byte each and the empty
\* request was returned
C11_Witness ==
    /\ rpc = "ok"
    /\ stream = <<Run("CR", 1), Run("LF", 1)>>
    /\ smallReads = 2
    /\ request = << >>

\* the answer of handleConn to a failed readRequest: the error menu with
\* status 400, made without a call of getResponseForRequest
AnsweredBadRequest ==
    /\ response = makeErrorResponse(badRequestError)
    /\ response.status = badRequestStatus
    /\ resolverCalls = 0

\* C12: more than 16384 bytes without an LF, or a failed read, end
\* readRequest with an error after finitely many reads (the buffer grows with
\* every read and reading goes on only below 16384 bytes), and handleConn
\* answers the error menu with status 400 without resolving or executing.
C12_ReadFailureIs400 ==
    /\ []((BLen(stream) > maxRequestSize /\ ~BContains(stream, "LF")) => rpc = "error")
    /\ [](rpc = "reading" => BLen(requestBuf) < maxRequestSize)
    /\ []((rpc = "error" /\ response # NoResponse) => AnsweredBadRequest)
    /\ [][(rpc = "reading" /\ rpc' = "reading" /\ stream' # stream)
              => BLen(requestBuf') > BLen(requestBuf)]_vars

\* more than 16384 bytes came without an LF and the answer is the 400 menu
C12_Witness ==
    /\ rpc = "error"
    /\ BLen(stream) > maxRequestSize
    /\ ~BContains(stream, "LF")
    /\ ~BContains(stream, "NUL")
    /\ AnsweredBadRequest

\* C19: the read deadline is set when readRequest is entered, before any
\* read, to the entry time plus the timeout and stays there; no byte is read
\* and no request is returned after it, the abort is answered BadRequest;
\* with a timeout of 0 there is never a read deadline.
C19_ReadDeadlineOnce ==
    /\ [](rpc = "start" => (readDeadline = NoDeadline /\ stream = << >>))
    /\ [](rpc # "start" =>
              readDeadline = IF requestReadTimeout # 0
                             THEN DeadlineAt(readStart + requestReadTimeout)
                             ELSE NoDeadline)
    /\ []((rpc = "ok" /\ requestReadTimeout # 0) => now <= readStart + requestReadTimeout)
    /\ []((rpc = "error" /\ response # NoResponse) => response.status = badRequestStatus)
    /\ [][stream' # stream
              => (requestReadTimeout = 0 \/ now <= readStart + requestReadTimeout)]_vars

\* a client that sent bytes without an LF was aborted after the deadline and
\* answered BadRequest
C19_Witness ==
    /\ requestReadTimeout # 0
    /\ rpc = "error"
    /\ now > readStart + requestReadTimeout
    /\ stream # << >>
    /\ ~BContains(stream, "LF")
    /\ ~BContains(stream, "NUL")
    /\ BLen(stream) < maxRequestSize
    /\ response = makeErrorResponse(badRequestError)

(***************************************************************************)
(* Properties of splitRequest (under SpecSplit).                           *)
(***************************************************************************)
\* C13 as stated: selector = path when query is empty, else
\* selector = path + "?" + query.
C13_SelectorIsPathQuery ==
    spc = "done" =>
        IF split.query = Empty THEN split.selector = split.path
        ELSE split.selector = split.path \o <<"?">> \o split.query

\* C13 as amended: selector = path + "?" + query when the selector holds a
\* question mark (the query may then be empty), else selector = path and the
\* query is empty.
C13_SelectorDecomposition ==
    spc = "done" =>
        IF Contains(split.selector, "?")
        THEN split.selector = split.path \o <<"?">> \o split.query
        ELSE split.selector = split.path /\ split.query = Empty

\* a selector that ends in its only question mark was split
C13_Witness ==
    /\ spc = "done"
    /\ split.selector # Empty
    /\ split.selector[Len(split.selector)] = "?"
    /\ split.query = Empty
    /\ split.path \o <<"?">> = split.selector

\* t is s up to, and without, its first c (all of s when it holds no c)
IsUpToFirst(t, s, c) ==
    /\ ~Contains(t, c)
    /\ HasPrefix(s, t)
    /\ Len(t) = Len(s) \/ s[Len(t) + 1] = c

\* C14: the selector is the request up to its first tab, the search what
\* lies between the first and the second tab (empty without a tab); neither
\* holds a tab, the path holds no question mark, and selector, tab, search
\* are a prefix of a request that holds a tab.
C14_SearchExtraction ==
    spc = "done" =>
        /\ IsUpToFirst(split.selector, rawRequest, "TAB")
        /\ IF Contains(rawRequest, "TAB")
           THEN /\ IsUpToFirst(split.search, From(rawRequest, Len(split.selector) + 1), "TAB")
                /\ HasPrefix(rawRequest, split.selector \o <<"TAB">> \o split.search)
           ELSE split.search = Empty
        /\ ~Contains(split.selector, "TAB")
        /\ ~Contains(split.search, "TAB")
        /\ ~Contains(split.path, "?")

\* a request with a second tab after a search string was split
C14_Witness ==
    /\ spc = "done"
    /\ split.search # Empty
    /\ split.query # Empty
    /\ rawRequest # split.selector \o <<"TAB">> \o split.search

(***************************************************************************)
(* Properties of normalizePath (under SpecNorm).                           *)
(***************************************************************************)
\* the output is empty or begins with a slash, has no "." or ".." segment
\* and no empty segment but a last one, which is there exactly when the
\* input ends in a slash
NormalForm ==
    /\ normOut.out = Empty \/ normOut.out[1] = "/"
    /\ \A i \in 1..Len(Segments(normOut.out)) :
           /\ Segments(normOut.out)[i] \notin {Dot, DotDot}
           /\ (1 < i /\ i < Len(Segments(normOut.out))) => Segments(normOut.out)[i] # Empty
    /\ (normOut.out # Empty /\ normOut.out[Len(normOut.out)] = "/")
           <=> (normIn # Empty /\ normIn[Len(normIn)] = "/")

\* C15 as stated: a successful result is in normal form, and every input
\* without a leading slash gives what the input with one gives.
C15_NormalizationConfinement ==
    npc = "done" =>
        /\ normOut.ok => NormalForm
        /\ ~HasPrefix(normIn, <<"/">>) => normOut = normalizePath(<<"/">> \o normIn)

\* C15 as amended: a successful result is in normal form; every non-empty
\* input without a leading slash gives what the input with one gives, and
\* the empty input gives the empty string.
C15_NormalizationNonEmpty ==
    npc = "done" =>
        /\ normOut.ok => NormalForm
        /\ (normIn # Empty /\ ~HasPrefix(normIn, <<"/">>))
               => normOut = normalizePath(<<"/">> \o normIn)
        /\ normIn = Empty => normOut = [ok |-> TRUE, out |-> Empty]

\* an input without a leading slash, with "." and ".." segments, was
\* normalized
C15_Witness ==
    /\ npc = "done"
    /\ normOut.ok
    /\ normIn # Empty
    /\ normIn[1] # "/"
    /\ \E i \in 1..Len(Segments(normIn)) : Segments(normIn)[i] = DotDot
    /\ \E i \in 1..Len(Segments(normIn)) : Segments(normIn)[i] = Dot

(***************************************************************************)
(* Errors of the decoder and of the normalizer (under SpecPath).           *)
(***************************************************************************)
\* scanning the segments from the i-th on with depth segments kept so far,
\* some ".." finds nothing to pop
RECURSIVE ClimbsOut(_, _, _)
ClimbsOut(segs, i, depth) ==
    IF i > Len(segs) THEN FALSE
    ELSE IF segs[i] = DotDot THEN depth = 0 \/ ClimbsOut(segs, i + 1, depth - 1)
    ELSE IF segs[i] \in {Dot, Empty} THEN ClimbsOut(segs, i + 1, depth)
    ELSE ClimbsOut(segs, i + 1, depth + 1)

\* the decoding of every request path that is examined
DecodedPaths == [raw \in RawPaths |-> PathUnescape(raw)]

\* the request paths whose decoding has a ".." with no unpopped segment
\* before it
ClimbingPaths == {raw \in RawPaths : ClimbsOut(Segments(DecodedPaths[raw].val), 1, 0)}

\* the request path decodes, to a string without NUL
Decodes == DecodedPaths[reqPath].ok /\ ~Contains(DecodedPaths[reqPath].val, "NUL")

\* C16: BadRequest exactly when the path does not decode or decodes to a
\* string with a NUL; Forbidden exactly when the decoded path has a ".."
\* with no unpopped segment before it; neither names a file.
C16_DecoderNormalizerErrors ==
    ppc = "done" =>
        /\ res.err = badRequestError <=> ~Decodes
        /\ res.err = forbiddenError
               <=> (Decodes /\ reqPath \in ClimbingPaths)
        /\ res.err \in {badRequestError, forbiddenError}
               => (res = NoResult(res.err) /\ resp = makeErrorResponse(res.err))

\* a path whose ".." is percent-encoded climbed out of the root and was
\* answered Forbidden
C16_Witness ==
    /\ ppc = "done"
    /\ res.err = forbiddenError
    /\ Contains(reqPath, "%")
    /\ ~Contains(reqPath, ".")
    /\ resp = makeErrorResponse(forbiddenError)

(***************************************************************************)
(* Properties of one connection handler (under SpecConn).                  *)
(***************************************************************************)
\* C17: the handler holds its token until it exits and takes exactly one
\* out when it exits, whatever ended the streaming; every state before the
\* exit has a next step.
C17_SlotRelease ==
    /\ [](cpc # "done" => connChan = 1)
    /\ [](cpc = "done" => connChan = 0)
    /\ [](cpc # "done" => ENABLED NextConn)
    /\ [][connChan' # connChan
              => (cpc = "release" /\ cpc' = "done" /\ connChan' = connChan - 1)]_vars

\* the handler of a CGI response has exited after a failed write
C17_Witness ==
    /\ cpc = "done"
    /\ streamEnd = "writeError"
    /\ response.cmd
    /\ connChan = 0

\* C20: with a non-zero timeout the deadline of every write is the time at
\* which its chunk was in hand plus the timeout, for every kind of response;
\* streaming goes on only after a write in full before that deadline; with a
\* timeout of 0 there is never a write deadline.
C20_WriteDeadlinePerWrite ==
    /\ [](responseProgressTimeout = 0 => writeDeadline = NoDeadline)
    /\ []((cpc = "write" /\ responseProgressTimeout # 0)
              => writeDeadline = DeadlineAt(chunkAt + responseProgressTimeout))
    /\ [][(cpc = "write" /\ cpc' # "write")
              => IF streamEnd' = "none" /\ ~Expired(writeDeadline)
                 THEN cpc' = "read" /\ sent' = sent + 1
                 ELSE cpc' = "log" /\ sent' = sent]_vars

\* the second chunk of an error menu is about to be written under a deadline
\* armed later than that of the first
C20_Witness ==
    /\ cpc = "write"
    /\ response.reader = "error"
    /\ responseProgressTimeout # 0
    /\ sent = 1
    /\ chunkAt > 0
    /\ writeDeadline = DeadlineAt(chunkAt + responseProgressTimeout)

(***************************************************************************)
(* The accept loop after failed Accept calls (under Spec).                 *)
(***************************************************************************)
\* C18: the accept loop is never blocked on the full semaphore while no
\* handler is running (nothing could then take a token out, and no
\* connection would be accepted any more).
C18_AcceptLoopNotStarved ==
    (acceptPc = "send" /\ LiveHandlers = {}) => connChan < connChanCap

(***************************************************************************)
(* scriptName and the fallback to a directory index (under SpecPath).      *)
(***************************************************************************)
\* C28 as stated: fsPath is the document root followed by scriptName.
C28_ScriptNameIsFsPath ==
    Resolved => res.fsPath = rootPath \o res.scriptName

\* C28 as amended: fsPath is the document root followed by scriptName when
\* the resolution is a file on the path, and that followed by /index.cgi or
\* /index.map when it is the index of the directory scriptName.
C28_ScriptNameOrIndex ==
    Resolved =>
        IF Stat(rootPath \o res.scriptName).isDir
        THEN ViaIndex
        ELSE res.fsPath = rootPath \o res.scriptName /\ IsRegularFile(res.fsPath)

\* a directory below the root was requested and its index file resolved
C28_Witness ==
    /\ Resolved
    /\ res.scriptName # Empty
    /\ res.pathInfo = Empty
    /\ res.fsPath = rootPath \o res.scriptName \o indexCgiPath

\* k is the end of a segment of the normalized path, or 0 for the root
IsBoundary(k) ==
    /\ k = Len(norm.out) \/ norm.out[k + 1] = "/"
    /\ k = 0 \/ norm.out[k] # "/"

Boundaries == {k \in 0..Len(norm.out) : IsBoundary(k)}

\* no prefix of the normalized path, nor the path itself, is a regular file
NoFileOnPath ==
    \A k \in 0..Len(norm.out) :
        (k = Len(norm.out) \/ norm.out[k + 1] = "/")
            => ~IsRegularFile(rootPath \o SubSeq(norm.out, 1, k))

\* the prefix that ends at k is a directory with world read and exec bits
Traversable(k) ==
    LET st == getStats(rootPath \o SubSeq(norm.out, 1, k))
    IN  st.isDir /\ st.err = NoError

\* the i-th index file of the directory that ends at k can be served
PermittedIndex(k, i) ==
    LET st == getStats(rootPath \o SubSeq(norm.out, 1, k) \o indexPaths[i])
    IN  st.isFile /\ st.err = NoError

\* the directories on the path that can be reached from the root and hold a
\* permitted index file
IndexDirs ==
    LET reachable == {k \in Boundaries : Traversable(k)}
    IN  {k \in reachable :
            /\ \A j \in Boundaries : j <= k => j \in reachable
            /\ \E i \in 1..Len(indexPaths) : PermittedIndex(k, i)}

\* the resolution is an index file of the deepest of IndexDirs, or
\* FileNotFound when there is none
DeepestIndexResult ==
    LET dirs == IndexDirs
    IN  IF dirs = {} THEN res.err = fileNotFoundError
        ELSE LET k == CHOOSE d \in dirs : \A e \in dirs : e <= d
             IN  /\ res.err = NoError
                 /\ \E i \in 1..Len(indexPaths) :
                        /\ PermittedIndex(k, i)
                        /\ res.fsPath = rootPath \o SubSeq(norm.out, 1, k) \o indexPaths[i]
                 /\ res.scriptName = SubSeq(norm.out, 1, k)
                 /\ res.pathInfo = From(norm.out, k)

\* C29 as stated: without a regular file on the path the resolution is the
\* index file of the deepest reachable directory that holds a permitted one.
C29_DeepestIndexFallback ==
    (ppc = "done" /\ norm.ok /\ NoFileOnPath) => DeepestIndexResult

\* C29 as amended: that, unless .cgi is an excluded extension, in which case
\* the result is FileNotFound.
C29_DeepestIndexUnlessCgiExcluded ==
    (ppc = "done" /\ norm.ok /\ NoFileOnPath) =>
        IF cgiExt \in excluded THEN res.err = fileNotFoundError
        ELSE DeepestIndexResult

\* a path below a directory with an index file, in a root with one too, fell
\* back to the index of the deeper directory with the rest as path-info
C29_Witness ==
    /\ ppc = "done"
    /\ norm.ok
    /\ NoFileOnPath
    /\ Cardinality(IndexDirs) > 1
    /\ res.err = NoError
    /\ res.scriptName # Empty
    /\ res.pathInfo # Empty

(***************************************************************************)
(* The rendering of errors (under SpecPath).                               *)
(***************************************************************************)
ErrorStatuses ==
    {badRequestStatus, forbiddenStatus, fileNotFoundStatus, internalServerErrorStatus}

\* the default message of an error status
DefaultMessage(status) ==
    CASE status = badRequestStatus -> <<"Bad request.">>
      [] status = forbiddenStatus -> <<"Forbidden.">>
      [] status = fileNotFoundStatus -> <<"File not found.">>
      [] status = internalServerErrorStatus -> <<"Internal server error.">>

\* C27: a response with status 400, 403, 404 or 500 is the one error entry
\* '3' message TAB TAB host TAB port CRLF '.' CRLF with the default message
\* of its status and no child; a response with status 200 is a file or the
\* output of a child.
C27_ErrorRendering ==
    ppc = "done" =>
        /\ resp.status \in ErrorStatuses \cup {okStatus}
        /\ resp.status \in ErrorStatuses =>
               /\ resp.reader = "error"
               /\ ~resp.cmd
               /\ resp.body = <<"3">> \o DefaultMessage(resp.status) \o <<"TAB", "TAB">>
                                  \o serverhost \o <<"TAB">> \o serverport
                                  \o <<"CR", "LF", ".", "CR", "LF">>
        /\ resp.status = okStatus => resp.reader \in {"file", "stdout"}

\* a CGI that could not be started was answered with the 500 entry
C27_Witness ==
    /\ Resolved
    /\ HasSuffix(res.fsPath, cgiExt)
    /\ resp.status = internalServerErrorStatus
    /\ resp.body = <<"3", "Internal server error.", "TAB", "TAB", "localhost", "TAB", "70",
                     "CR", "LF", ".", "CR", "LF">>

(***************************************************************************)
(* Streaming, accounting and the deferred calls of one connection (under   *)
(* SpecConn).                                                              *)
(***************************************************************************)
RECURSIVE WireLen(_)
\* the number of bytes in a sequence of pieces
WireLen(w) == IF w = << >> THEN 0 ELSE w[1].n + WireLen(Tail(w))

\* the pieces follow each other from offset 0 on without gap or overlap
WireIsPrefix(w) ==
    \A i \in 1..Len(w) : w[i].n > 0 /\ w[i].from = WireLen(SubSeq(w, 1, i - 1))

\* C22: the status of requestInfo is the status of the response as it was
\* made and no step changes it, so the line logged after a failed write or
\* an early end of a started response says 200; the transferred count logged
\* is the number of bytes the writes reported, a partial last write
\* included, printed as "-" when it is 0.
C22_StatusAndByteAccounting ==
    /\ [](infoStatus = response.status)
    /\ [][infoStatus' = infoStatus]_vars
    /\ [](transferred = WireLen(wire))
    /\ [](\A i \in 1..Len(logLines) :
              /\ logLines[i].status = response.status
              /\ logLines[i].transferred = WireLen(wire)
              /\ logLines[i].dash <=> (WireLen(wire) = 0))

\* a CGI response whose second write was cut short is logged as 200 with
\* the bytes of the first write and of the part of the second
C22_Witness ==
    /\ response.cmd
    /\ streamEnd = "shortWrite"
    /\ sent = 1
    /\ logLines = <<LogLine(okStatus, WireLen(wire))>>
    /\ logLines[1].transferred = readBufSize + 1

\* C23: the child of a response that carries one is awaited exactly once
\* before the slot is released, whatever ended the streaming; the child is
\* never awaited twice and nothing is awaited when there is no child.
C23_ChildReaping ==
    /\ [](cpc \in {"release", "done"} => waits = IF response.cmd THEN 1 ELSE 0)
    /\ [](waits <= 1)
    /\ [][waits' # waits => (response.cmd /\ waits' = waits + 1 /\ connChan' = 1)]_vars

\* the child was awaited after a short write and the slot is released
C23_Witness ==
    /\ cpc = "done"
    /\ response.cmd
    /\ streamEnd = "shortWrite"
    /\ waits = 1
    /\ connChan = 0

\* C24: the bytes on the socket are at every point a prefix of the bytes
\* read from the response reader, in order, none twice; when the reader
\* ended and no write failed or was short they are all of them; after a
\* zero-byte read, a write error or a write of nothing no byte is read or
\* written any more.
C24_VerbatimStreaming ==
    /\ [](WireIsPrefix(wire) /\ WireLen(wire) <= readPos)
    /\ [](streamEnd = "eof" => WireLen(wire) = readPos)
    /\ [][streamEnd # "none" => (wire' = wire /\ readPos' = readPos)]_vars
    /\ [][(cpc = "read" /\ cpc' # "read" /\ readPos' = readPos) => streamEnd' = "eof"]_vars
    /\ [][(cpc = "write" /\ cpc' # "write" /\ WireLen(wire') < readPos)
              => streamEnd' \in {"shortWrite", "writeError"}]_vars

\* a file of two chunks was streamed whole
C24_Witness ==
    /\ response.reader = "file"
    /\ streamEnd = "eof"
    /\ Len(wire) = 2
    /\ WireLen(wire) = readBufSize + 1
    /\ readPos = readBufSize + 1

\* C30: no response byte is written before the request is read; the log
\* line is printed once, after streaming has ended and after the child, if
\* any, was awaited, and before the socket is closed and the slot released.
C30_LifecycleOrder ==
    /\ [](wire # << >> => rpc \in {"ok", "error"})
    /\ [](Len(logLines) <= 1)
    /\ [](Len(logLines) = 1 => streamEnd # "none")
    /\ [](cpc \in {"release", "done"} => Len(logLines) = 1)
    /\ []((Len(logLines) = 1 /\ response.cmd) => waits = 1)

(***************************************************************************)
(* The counters under handlers that finish concurrently (under SpecCount). *)
(***************************************************************************)
RECURSIVE SumTransferred(_)
\* the sum of requestInfo.transferred over a set of handlers
SumTransferred(cs) ==
    IF cs = {} THEN 0
    ELSE LET c == CHOOSE x \in cs : TRUE
         IN  ktransferred[c] + SumTransferred(cs \ {c})

\* C21: no step makes a counter smaller; the request counter is the number
\* of handlers that have added to it, whatever their status, and the byte
\* counter is the sum of the transferred counts of the handlers that have
\* finished.
C21_Counters ==
    /\ [][requestCount' >= requestCount /\ bytesTransferred' >= bytesTransferred]_vars
    /\ [](requestCount = Cardinality({c \in Handlers : kpc[c] \in {"addBytes", "done"}}))
    /\ [](bytesTransferred = SumTransferred({c \in Handlers : kpc[c] = "done"}))

\* all handlers have finished, one of them with a failed request, and every
\* one is counted
C21_Witness ==
    /\ \A c \in Handlers : kpc[c] = "done"
    /\ \E c \in Handlers : kstatus[c] = badRequestStatus
    /\ requestCount = MaxHandlers
    /\ bytesTransferred > readBufSize + 1

(***************************************************************************)
(* The command of a CGI (under SpecCgi).                                   *)
(***************************************************************************)
\* the values of the variable called name in an environment
EnvValues(env, name) == {env[i].value : i \in {j \in 1..Len(env) : env[j].name = name}}

\* the variables of the environment table
EnvNames ==
    {"PATH", "GATEWAY_INTERFACE", "SERVER_PROTOCOL", "SERVER_SOFTWARE", "REQUEST_METHOD",
     "PATH_INFO", "PATH_TRANSLATED", "SERVER_NAME", "SERVER_HOST", "SERVER_PORT",
     "QUERY_STRING", "QUERY_STRING_URL", "REMOTE_ADDR", "REMOTE_HOST", "REMOTE_PORT",
     "SCRIPT_NAME", "SCRIPT_FILENAME", "GOPHER_SCRIPT_FILENAME", "DOCUMENT_ROOT",
     "GOPHER_DOCUMENT_ROOT", "SERVER_DESCRIPTION", "SEARCHREQUEST", "X_GOPHER_SEARCH",
     "QUERY_STRING_SEARCH", "SELECTOR", "GOPHER_DOCUMENT_SELECTOR", "REQUEST",
     "THIRTEEN_UPTIME", "THIRTEEN_REQUESTS", "THIRTEEN_BYTES"}

\* the groups of variables that carry the same value
EnvAliases ==
    {{"SERVER_NAME", "SERVER_HOST"}, {"QUERY_STRING", "QUERY_STRING_URL"},
     {"REMOTE_ADDR", "REMOTE_HOST"}, {"SCRIPT_FILENAME", "GOPHER_SCRIPT_FILENAME"},
     {"DOCUMENT_ROOT", "GOPHER_DOCUMENT_ROOT"},
     {"SEARCHREQUEST", "X_GOPHER_SEARCH", "QUERY_STRING_SEARCH"},
     {"SELECTOR", "GOPHER_DOCUMENT_SELECTOR"}}

\* C25: the child gets the six arguments search, query, host, port,
\* pathInfo, selector in this order; its environment holds each variable of
\* the table once and nothing of the server's own environment; aliases have
\* equal values; REQUEST is scriptName + pathInfo; PATH_TRANSLATED is the
\* document root + pathInfo, or empty when pathInfo is; the working
\* directory is the directory of fsPath.
C25_CgiInvocation ==
    gpc = "done" =>
        LET sp == splitRequest(cgiIn.request)
        IN  /\ child.path = cgiIn.fsPath
            /\ Len(child.args) = 6
            /\ child.args[1] = sp.search
            /\ child.args[2] = sp.query
            /\ child.args[3] = <<"localhost">>
            /\ child.args[4] = <<"70">>
            /\ child.args[5] = cgiIn.pathInfo
            /\ child.args[6] = sp.selector
            /\ {child.env[i].name : i \in 1..Len(child.env)} = EnvNames
            /\ Len(child.env) = Cardinality(EnvNames)
            /\ \A i \in 1..Len(osEnviron) :
                   osEnviron[i].value \notin EnvValues(child.env, osEnviron[i].name)
            /\ \A group \in EnvAliases :
                   Cardinality(UNION {EnvValues(child.env, name) : name \in group}) = 1
            /\ EnvValues(child.env, "REQUEST") = {cgiIn.scriptName \o cgiIn.pathInfo}
            /\ EnvValues(child.env, "PATH_INFO") = {cgiIn.pathInfo}
            /\ EnvValues(child.env, "PATH_TRANSLATED")
                   = {IF cgiIn.pathInfo # Empty THEN rootPath \o cgiIn.pathInfo ELSE Empty}
            /\ HasPrefix(cgiIn.fsPath, child.dir \o <<"/">>)
            /\ ~Contains(From(cgiIn.fsPath, Len(child.dir) + 1), "/")

\* the index.cgi of a directory was run with path info, a query and a
\* search string
C25_Witness ==
    /\ gpc = "done"
    /\ cgiIn.fsPath = pathD \o indexCgiPath
    /\ child.dir = pathD
    /\ child.args = <<<<"s">>, <<"q">>, serverhost, serverport, <<"/", "a">>,
                      <<"/", "d", "/", "a", "?", "q">>>>
    /\ EnvValues(child.env, "PATH_TRANSLATED") = {<<"/", "r", "/", "a">>}

\* the host and the port of an address: what stands before and after the
\* colon that precedes the port
HostOf(addr) == SubSeq(addr, 1, LastIndex(addr, ":"))
PortOf(addr) == From(addr, LastIndex(addr, ":") + 1)

\* C26: for an IPv4 and for an IPv6 client address the host of the log line
\* and of REMOTE_ADDR and REMOTE_HOST is the address without its port, and
\* REMOTE_PORT is the port.
C26_RemoteAddressSplit ==
    /\ gpc \in {"accepted", "done"} => logHost = HostOf(remote)
    /\ gpc = "done" =>
           /\ EnvValues(child.env, "REMOTE_ADDR") = {HostOf(remote)}
           /\ EnvValues(child.env, "REMOTE_HOST") = {HostOf(remote)}
           /\ EnvValues(child.env, "REMOTE_PORT") = {PortOf(remote)}

(***************************************************************************)
(* The tokens of the semaphore (under Spec).                               *)
(***************************************************************************)
\* C31: the tokens in the channel are one for each live handler and at most
\* one more, which belongs to the iteration of the accept loop that waits in
\* Accept; no token stands for a connection that was never accepted or whose
\* handler has exited.
C31_SemaphoreAccounting ==
    LET spare == connChan - Cardinality(LiveHandlers)
    IN  /\ spare \in {0, 1}
        /\ spare = 1 => acceptPc = "accept"

(***************************************************************************)
(* The exit of the handler (under SpecLive).                               *)
(***************************************************************************)
\* with both timeouts set, a handler whose response has no child exits
HandlerExitsWithoutChild ==
    (requestReadTimeout # 0 /\ responseProgressTimeout # 0)
        => <>(cpc = "done" \/ response.cmd)

\* C32: with both timeouts set every handler exits and releases its slot,
\* whatever the client does and whatever the response is, the output of a
\* child that neither writes nor exits included.
C32_HandlerTermination ==
    (requestReadTimeout # 0 /\ responseProgressTimeout # 0)
        => <>(cpc = "done" /\ connChan = 0)

====
